---------------------------- MODULE Spec2Model ----------------------------
(***************************************************************************)
(* A model of the alic3 LC-3 emulator (src/src/emulator.rs) as driven by   *)
(* the exec front-end (src/src/bin/exec.rs): object images are loaded into *)
(* a fresh Cpu, the program counter is set and the machine is stepped      *)
(* until the machine control register says to stop.                        *)
(*                                                                         *)
(* The keyboard and display registers are also driven directly, read by   *)
(* read and store by store, with keys arriving in between.                 *)
(*                                                                         *)
(* The assembler (src/src/asm_parser.rs, src/src/assembler.rs) is modelled *)
(* from the token stream on: parse_program line by line, then assemble     *)
(* line by line.                                                           *)
(*                                                                         *)
(* Machine words are 16-bit patterns, kept as naturals in 0..65535.        *)
(* The 65536-word memory array is kept sparsely: a function whose domain   *)
(* is the set of addresses holding a non-zero word (Cpu::new zero-fills).  *)
(***************************************************************************)
EXTENDS Integers, Naturals, Sequences, FiniteSets, TLC

VARIABLES
    cpu,              \* the Cpu struct (and what the last step did, cpu.obs)
    phase,            \* position of exec.rs main: new, os, pgm, run, halted
    steps,            \* iterations of the run loop made so far
    loaded,           \* the object files loaded so far, by name
    third_edition,    \* the cargo feature "third_edition" of this build
    overflow_checks,  \* whether this build panics on integer overflow
    io,               \* what the device registers were asked and answered
    asm,              \* the assembler: its parser, its lines and its words
    call              \* a function called on its own: arguments and result

vars == <<cpu, phase, steps, loaded, third_edition, overflow_checks, io, asm, call>>

----------------------------------------------------------------------------
(* Bounds of the model                                                     *)

MaxSteps == 7

\* keys that arrive, reads of and stores to the device registers
MaxKeys == 2

MaxReads == 4

MaxStores == 4

\* lines of an assembly source between .ORIG and .END
MaxLines == 3

\* words of an object file that is disassembled
MaxListing == 4

----------------------------------------------------------------------------
(* Words and bit manipulation (src/src/bit_twiddling.rs)                   *)

WordSize == 65536

Word == 0 .. (WordSize - 1)

Pow2(n) == 2 ^ n

\* a u16 read as an i16
AsSigned(n) == IF n >= 32768 THEN n - WordSize ELSE n

wrapping_add(a, b) == (a + b) % WordSize

RECURSIVE BitAndN(_, _, _)
BitAndN(a, b, n) ==
    IF n = 0 THEN 0
    ELSE (a % 2) * (b % 2) + 2 * BitAndN(a \div 2, b \div 2, n - 1)

BitAnd(a, b) == BitAndN(a, b, 16)

BitNot(a) == (WordSize - 1) - a

BitOr(a, b) == a + b - BitAnd(a, b)

get_bits(START, END, n) == (n \div Pow2(START)) % Pow2(END - START + 1)

\* (n << (16 - NUM_BITS)) >> (16 - NUM_BITS) on an i16, as a 16-bit pattern
sign_extend(NUM_BITS, n) ==
    LET low == n % Pow2(NUM_BITS)
    IN  IF low >= Pow2(NUM_BITS - 1)
        THEN low + (WordSize - Pow2(NUM_BITS))
        ELSE low

----------------------------------------------------------------------------
(* Memory-mapped registers and condition codes (src/src/emulator.rs)       *)

MEMORY_SIZE == 65536

PSR == 65532
MCR == 65534
KBSR == 65024
KBDR == 65026
DSR == 65028
DDR == 65030

COND_NEGATIVE == 4
COND_ZERO == 2
COND_POSITIVE == 1

Br == 0
Add == 1
Ld == 2
St == 3
Jsr == 4
And == 5
Ldr == 6
Str == 7
Rti == 8
Not == 9
Ldi == 10
Sti == 11
Jmp == 12
Reserved == 13
Lea == 14
Trap == 15

----------------------------------------------------------------------------
(* The memory array, kept sparsely                                         *)

ArrayGet(arr, addr) == IF addr \in DOMAIN arr THEN arr[addr] ELSE 0

ArraySet(arr, addr, value) ==
    IF value = 0
    THEN [a \in (DOMAIN arr) \ {addr} |-> arr[a]]
    ELSE [a \in (DOMAIN arr) \cup {addr} |-> IF a = addr THEN value ELSE arr[a]]

----------------------------------------------------------------------------
(* KeyboardIO                                                              *)

KeyboardIO_new(stdin) ==
    [need_more_input |-> TRUE, kbsr |-> FALSE, kbdr |-> 0, stdin |-> stdin]

\* variant: a key taken does not stop the next read from taking another
update_input_KeepsAsking(kb) ==
    IF kb.stdin # << >>
    THEN [kb EXCEPT !.kbdr = Head(kb.stdin), !.kbsr = TRUE,
                    !.stdin = Tail(kb.stdin)]
    ELSE [kb EXCEPT !.kbsr = FALSE]

\* stdin.read_u8() is Ok exactly when a byte is pending
update_input(kb) ==
    IF kb.stdin # << >>
    THEN [kb EXCEPT !.kbdr = Head(kb.stdin), !.kbsr = TRUE,
                    !.need_more_input = FALSE, !.stdin = Tail(kb.stdin)]
    ELSE [kb EXCEPT !.kbsr = FALSE]

\* the keyboard after read_kbsr, and the word it returns
read_kbsr_io(kb) == IF kb.need_more_input THEN update_input(kb) ELSE kb

read_kbsr(kb) == IF read_kbsr_io(kb).kbsr THEN 32768 ELSE 0

\* variant: reading KBDR does not consume the buffered key
read_kbdr_io_KeepsKey(kb) ==
    IF kb.need_more_input THEN update_input(kb) ELSE kb

\* the keyboard after read_kbdr, and the word it returns
read_kbdr_io(kb) ==
    [(IF kb.need_more_input THEN update_input(kb) ELSE kb)
        EXCEPT !.need_more_input = TRUE]

read_kbdr(kb) == read_kbdr_io(kb).kbdr

----------------------------------------------------------------------------
(* Memory::get and Memory::set, on the Memory struct m                     *)

\* the word Memory::get returns
Memory_get(m, addr) ==
    CASE addr = KBSR -> read_kbsr(m.keyboard_io)
      [] addr = KBDR -> read_kbdr(m.keyboard_io)
      [] addr = DSR  -> 32768
      [] OTHER       -> ArrayGet(m.memory, addr)

\* the Memory struct once Memory::get has returned (the keyboard may move)
Memory_get_io(m, addr) ==
    CASE addr = KBSR -> [m EXCEPT !.keyboard_io = read_kbsr_io(@)]
      [] addr = KBDR -> [m EXCEPT !.keyboard_io = read_kbdr_io(@)]
      [] OTHER       -> m

\* the output: bytes written and not yet flushed, and the bytes the sink
\* has received.  Writes and flushes to it are taken to succeed (their
\* results are dropped by the code).
Stdout_new == [buffer |-> << >>, sink |-> << >>]

write_u8(out, byte) == [out EXCEPT !.buffer = Append(@, byte)]

flush(out) == [buffer |-> << >>, sink |-> out.sink \o out.buffer]

\* variant: the byte is written but not flushed
DdrWrite_NoFlush(out, value) ==
    write_u8(IF value = 10 THEN write_u8(out, 13) ELSE out, value % 256)

\* the DDR arm of Memory::set
DdrWrite(out, value) ==
    flush(write_u8(IF value = 10 THEN write_u8(out, 13) ELSE out,
                   BitAnd(value, 255)))

\* variant: a store to a read-only device register lands in the array
Memory_set_NoReadOnly(m, addr, value) ==
    CASE addr = DDR -> [m EXCEPT !.stdout = DdrWrite(@, value)]
      [] OTHER -> [m EXCEPT !.memory = ArraySet(@, addr, value)]

Memory_set(m, addr, value) ==
    CASE addr \in {KBSR, KBDR, DSR} -> m
      [] addr = DDR -> [m EXCEPT !.stdout = DdrWrite(@, value)]
      [] OTHER -> [m EXCEPT !.memory = ArraySet(@, addr, value)]

----------------------------------------------------------------------------
(* Cpu                                                                     *)

\* what the last step did: the instruction fetched and where from, the
\* vectors handle_exception was called with, and the Cpu as it stood at
\* each call of enter_supervisor_mode
NoObs == [ir |-> 0, at |-> 0, raised |-> << >>, entry |-> << >>]

Cpu_new(stdin) ==
    [registers |-> [r \in 0 .. 7 |-> 0],
     memory    |-> [memory      |-> (MCR :> 65535),
                    keyboard_io |-> KeyboardIO_new(stdin),
                    stdout      |-> Stdout_new],
     pc        |-> 0,
     saved_ssp |-> 12288,
     saved_usp |-> 65024,
     aborted   |-> FALSE,
     obs       |-> NoObs]

PsrOf(c) == Memory_get(c.memory, PSR)

UserMode(c) == get_bits(15, 15, PsrOf(c)) = 1

address_accessible(c, addr) ==
    IF get_bits(15, 15, Memory_get(c.memory, PSR)) = 0
    THEN TRUE
    ELSE addr >= 12288 /\ addr <= 65023

\* self.registers[6] -= 1: a panic where overflow is checked, else a wrap
R6_sub1(c) ==
    IF c.registers[6] = 0
    THEN IF overflow_checks
         THEN [c EXCEPT !.aborted = TRUE]
         ELSE [c EXCEPT !.registers[6] = WordSize - 1]
    ELSE [c EXCEPT !.registers[6] = @ - 1]

\* self.registers[6] += 1
R6_add1(c) ==
    IF c.registers[6] = WordSize - 1
    THEN IF overflow_checks
         THEN [c EXCEPT !.aborted = TRUE]
         ELSE [c EXCEPT !.registers[6] = 0]
    ELSE [c EXCEPT !.registers[6] = @ + 1]

Cpu_set(c, addr, value) == [c EXCEPT !.memory = Memory_set(@, addr, value)]

\* variant: the PC is pushed before the PSR
enter_supervisor_mode_PcFirst(c) ==
    LET old_psr == Memory_get(c.memory, PSR)
        c0 == [c EXCEPT !.obs.entry = Append(@, [c EXCEPT !.obs = NoObs])]
        c1 == IF get_bits(15, 15, Memory_get(c.memory, PSR)) = 1
              THEN [Cpu_set(c0, PSR,
                            BitAnd(Memory_get(c.memory, PSR), BitNot(Pow2(15))))
                       EXCEPT !.saved_usp = c.registers[6],
                              !.registers[6] = c.saved_ssp]
              ELSE c0
        c2 == R6_sub1(c1)
        c3 == Cpu_set(c2, c2.registers[6], c.pc)
        c4 == R6_sub1(c3)
        c5 == Cpu_set(c4, c4.registers[6], old_psr)
    IN  IF c2.aborted THEN c2
        ELSE IF c4.aborted THEN c4
        ELSE c5

enter_supervisor_mode(c) ==
    LET old_psr == Memory_get(c.memory, PSR)
        c0 == [c EXCEPT !.obs.entry = Append(@, [c EXCEPT !.obs = NoObs])]
        c1 == IF get_bits(15, 15, Memory_get(c.memory, PSR)) = 1
              THEN [Cpu_set(c0, PSR,
                            BitAnd(Memory_get(c.memory, PSR), BitNot(Pow2(15))))
                       EXCEPT !.saved_usp = c.registers[6],
                              !.registers[6] = c.saved_ssp]
              ELSE c0
        c2 == R6_sub1(c1)
        c3 == Cpu_set(c2, c2.registers[6], old_psr)
        c4 == R6_sub1(c3)
        c5 == Cpu_set(c4, c4.registers[6], c.pc)
    IN  IF c2.aborted THEN c2
        ELSE IF c4.aborted THEN c4
        ELSE c5

handle_exception(c, exception_vector) ==
    LET c1 == enter_supervisor_mode(c)
    IN  IF c1.aborted THEN c1
        ELSE [c1 EXCEPT !.pc = BitOr(exception_vector, 256),
                        !.obs.raised = Append(@, exception_vector)]

get_priority_level(c) == (Memory_get(c.memory, PSR) \div 256) % 8

set_priority_level(c, level) ==
    IF level > 7
    THEN [c EXCEPT !.aborted = TRUE]
    ELSE Cpu_set(c, PSR,
                 BitOr(BitAnd(Memory_get(c.memory, PSR), BitNot(1792)),
                       (level * 256) % WordSize))

\* handle_interrupt, were an interrupt at the current priority let through
handle_interrupt_AtLevel(c, interrupt_vector, priority_level) ==
    IF priority_level < get_priority_level(c)
    THEN c
    ELSE LET c1 == handle_exception(c, interrupt_vector)
         IN  IF c1.aborted THEN c1 ELSE set_priority_level(c1, priority_level)

handle_interrupt(c, interrupt_vector, priority_level) ==
    IF priority_level <= get_priority_level(c)
    THEN c
    ELSE LET c1 == handle_exception(c, interrupt_vector)
         IN  IF c1.aborted THEN c1 ELSE set_priority_level(c1, priority_level)

get_reg_hi(c, instruction) == c.registers[get_bits(9, 11, instruction)]

get_reg_lo(c, instruction) == c.registers[get_bits(6, 8, instruction)]

\* a read through Memory::get: the Cpu afterwards
Cpu_get_io(c, addr) == [c EXCEPT !.memory = Memory_get_io(@, addr)]

signum(n) == IF AsSigned(n) < 0 THEN -1 ELSE IF n = 0 THEN 0 ELSE 1

CondOf(result) ==
    CASE signum(result) = -1 -> COND_NEGATIVE
      [] signum(result) = 0  -> COND_ZERO
      [] signum(result) = 1  -> COND_POSITIVE

\* variant: the PSR is replaced by the condition bits alone
SetCondCodes_Clobber(c, result) == Cpu_set(c, PSR, CondOf(result))

\* Replace lower 3 bits of PSR with the new condition bits
SetCondCodes(c, result) ==
    Cpu_set(c, PSR,
            BitOr(BitAnd(Memory_get(c.memory, PSR), BitNot(7)), CondOf(result)))

\* variant: LEA sets the condition codes in every build
WriteResult_LeaSetsCC(c, OP, instruction, result) ==
    SetCondCodes([c EXCEPT !.registers[get_bits(9, 11, instruction)] = result],
                 result)

\* registers[DR] = result, then the condition codes (not for LEA unless
\* the build has the feature third_edition)
WriteResult(c, OP, instruction, result) ==
    LET c1 == [c EXCEPT !.registers[get_bits(9, 11, instruction)] = result]
    IN  IF (~third_edition) /\ OP = Lea
        THEN c1
        ELSE SetCondCodes(c1, result)

ExecAddAnd(c, OP, instruction) ==
    LET src_value_2 ==
            IF get_bits(5, 5, instruction) = 1
            THEN sign_extend(5, get_bits(0, 4, instruction))
            ELSE c.registers[get_bits(0, 2, instruction)]
        result ==
            IF OP = Add
            THEN wrapping_add(get_reg_lo(c, instruction), src_value_2)
            ELSE BitAnd(get_reg_lo(c, instruction), src_value_2)
    IN  WriteResult(c, OP, instruction, result)

ExecLea(c, OP, instruction) ==
    LET pc_offset == sign_extend(9, get_bits(0, 8, instruction))
        addr == wrapping_add(c.pc, pc_offset)
    IN  WriteResult(c, OP, instruction, addr)

ExecLd(c, OP, instruction) ==
    LET pc_offset == sign_extend(9, get_bits(0, 8, instruction))
        addr == wrapping_add(c.pc, pc_offset)
    IN  IF ~address_accessible(c, addr)
        THEN handle_exception(c, 2)
        ELSE WriteResult(Cpu_get_io(c, addr), OP, instruction,
                         Memory_get(c.memory, addr))

ExecLdi(c, OP, instruction) ==
    LET pc_offset == sign_extend(9, get_bits(0, 8, instruction))
        addr == wrapping_add(c.pc, pc_offset)
        indirect_addr == Memory_get(c.memory, addr)
        c1 == Cpu_get_io(c, addr)
    IN  IF ~address_accessible(c, addr)
        THEN handle_exception(c, 2)
        ELSE IF ~address_accessible(c1, addr)
        THEN handle_exception(c1, 2)
        ELSE WriteResult(Cpu_get_io(c1, indirect_addr), OP, instruction,
                         Memory_get(c1.memory, indirect_addr))

ExecLdr(c, OP, instruction) ==
    LET offset == sign_extend(6, get_bits(0, 5, instruction))
        addr == wrapping_add(get_reg_lo(c, instruction), offset)
    IN  IF ~address_accessible(c, addr)
        THEN handle_exception(c, 2)
        ELSE WriteResult(Cpu_get_io(c, addr), OP, instruction,
                         Memory_get(c.memory, addr))

ExecNot(c, OP, instruction) ==
    WriteResult(c, OP, instruction, BitNot(get_reg_lo(c, instruction)))

ExecBr(c, instruction) ==
    LET nzp == get_bits(9, 11, instruction)
        pc_offset == sign_extend(9, get_bits(0, 8, instruction))
    IN  IF BitAnd(nzp, Memory_get(c.memory, PSR)) > 0
        THEN [c EXCEPT !.pc = wrapping_add(c.pc, pc_offset)]
        ELSE c

ExecJmp(c, instruction) == [c EXCEPT !.pc = get_reg_lo(c, instruction)]

\* variant: R7 is written before the target is read from the base register
ExecJsr_LinkFirst(c, instruction) ==
    LET c1 == [c EXCEPT !.registers[7] = c.pc]
    IN  IF get_bits(11, 11, instruction) = 1
        THEN [c1 EXCEPT !.pc = wrapping_add(c.pc,
                                sign_extend(11, get_bits(0, 10, instruction)))]
        ELSE [c1 EXCEPT !.pc = get_reg_lo(c1, instruction)]

ExecJsr(c, instruction) ==
    LET old_pc == c.pc
        c1 == IF get_bits(11, 11, instruction) = 1
              THEN [c EXCEPT !.pc = wrapping_add(c.pc,
                                sign_extend(11, get_bits(0, 10, instruction)))]
              ELSE [c EXCEPT !.pc = get_reg_lo(c, instruction)]
    IN  [c1 EXCEPT !.registers[7] = old_pc]

\* St and Sti share one arm; on a refused indirect address Sti calls
\* handle_exception and goes on to the store
ExecStSti(c, OP, instruction) ==
    LET pc_offset == sign_extend(9, get_bits(0, 8, instruction))
        addr0 == wrapping_add(c.pc, pc_offset)
        addr == IF OP = Sti THEN Memory_get(c.memory, addr0) ELSE addr0
        c1 == IF OP = Sti THEN Cpu_get_io(c, addr0) ELSE c
        c2 == IF OP = Sti /\ ~address_accessible(c1, addr)
              THEN handle_exception(c1, 2)
              ELSE c1
    IN  IF ~address_accessible(c, addr0)
        THEN handle_exception(c, 2)
        ELSE IF c2.aborted THEN c2
        ELSE Cpu_set(c2, addr, get_reg_hi(c2, instruction))

ExecStr(c, instruction) ==
    LET offset == sign_extend(6, get_bits(0, 5, instruction))
        addr == wrapping_add(get_reg_lo(c, instruction), offset)
    IN  IF ~address_accessible(c, addr)
        THEN handle_exception(c, 2)
        ELSE Cpu_set(c, addr, get_reg_hi(c, instruction))

\* variant: RTI pops the PSR before the PC
ExecRti_PsrFirst(c) ==
    LET c1 == Cpu_get_io(c, c.registers[6])
        new_psr == Memory_get(c.memory, c.registers[6])
        c2 == R6_add1(c1)
        c3 == R6_add1([Cpu_get_io(c2, c2.registers[6])
                          EXCEPT !.pc = Memory_get(c2.memory, c2.registers[6])])
        c4 == Cpu_set(c3, PSR, new_psr)
    IN  IF get_bits(15, 15, Memory_get(c.memory, PSR)) = 1
        THEN handle_exception(c, 0)
        ELSE IF c2.aborted THEN c2
        ELSE IF c3.aborted THEN c3
        ELSE IF get_bits(15, 15, Memory_get(c4.memory, PSR)) = 1
        THEN [c4 EXCEPT !.saved_ssp = c4.registers[6],
                        !.registers[6] = c4.saved_usp]
        ELSE c4

\* variant: RTI pops whatever the mode
ExecRti_NoPrivilegeCheck(c) ==
    LET c1 == [Cpu_get_io(c, c.registers[6])
                  EXCEPT !.pc = Memory_get(c.memory, c.registers[6])]
        c2 == R6_add1(c1)
        new_psr == Memory_get(c2.memory, c2.registers[6])
        c3 == R6_add1(Cpu_get_io(c2, c2.registers[6]))
        c4 == Cpu_set(c3, PSR, new_psr)
    IN  IF c2.aborted THEN c2
        ELSE IF c3.aborted THEN c3
        ELSE IF get_bits(15, 15, Memory_get(c4.memory, PSR)) = 1
        THEN [c4 EXCEPT !.saved_ssp = c4.registers[6],
                        !.registers[6] = c4.saved_usp]
        ELSE c4

ExecRti(c) ==
    LET \* Restore PC from supervisor stack pointer
        c1 == [Cpu_get_io(c, c.registers[6])
                  EXCEPT !.pc = Memory_get(c.memory, c.registers[6])]
        c2 == R6_add1(c1)
        new_psr == Memory_get(c2.memory, c2.registers[6])
        c3 == R6_add1(Cpu_get_io(c2, c2.registers[6]))
        c4 == Cpu_set(c3, PSR, new_psr)
    IN  IF get_bits(15, 15, Memory_get(c.memory, PSR)) = 1
        THEN handle_exception(c, 0)
        ELSE IF c2.aborted THEN c2
        ELSE IF c3.aborted THEN c3
        ELSE IF get_bits(15, 15, Memory_get(c4.memory, PSR)) = 1
        THEN [c4 EXCEPT !.saved_ssp = c4.registers[6],
                        !.registers[6] = c4.saved_usp]
        ELSE c4

\* variant: TRAP jumps to the vector itself, not to the table's entry
ExecTrap_NoTable(c, instruction) ==
    LET c1 == IF third_edition
              THEN enter_supervisor_mode(c)
              ELSE [c EXCEPT !.registers[7] = c.pc]
    IN  IF c1.aborted THEN c1
        ELSE [c1 EXCEPT !.pc = get_bits(0, 7, instruction)]

ExecTrap(c, instruction) ==
    LET c1 == IF third_edition
              THEN enter_supervisor_mode(c)
              ELSE [c EXCEPT !.registers[7] = c.pc]
        vector == get_bits(0, 7, instruction)
    IN  IF c1.aborted THEN c1
        ELSE [Cpu_get_io(c1, vector) EXCEPT !.pc = Memory_get(c1.memory, vector)]

\* Decode and execute a single instruction
execute_instruction(c, OP, instruction) ==
    CASE OP \in {Add, And}  -> ExecAddAnd(c, OP, instruction)
      [] OP = Ld            -> ExecLd(c, OP, instruction)
      [] OP = Ldi           -> ExecLdi(c, OP, instruction)
      [] OP = Ldr           -> ExecLdr(c, OP, instruction)
      [] OP = Lea           -> ExecLea(c, OP, instruction)
      [] OP = Not           -> ExecNot(c, OP, instruction)
      [] OP = Br            -> ExecBr(c, instruction)
      [] OP = Jmp           -> ExecJmp(c, instruction)
      [] OP = Jsr           -> ExecJsr(c, instruction)
      [] OP \in {St, Sti}   -> ExecStSti(c, OP, instruction)
      [] OP = Str           -> ExecStr(c, instruction)
      [] OP = Rti           -> ExecRti(c)
      [] OP = Reserved      -> handle_exception(c, 1)
      [] OP = Trap          -> ExecTrap(c, instruction)

step(c) ==
    LET instruction == Memory_get(c.memory, c.pc)
        c1 == [Cpu_get_io(c, c.pc)
                  EXCEPT !.pc = wrapping_add(c.pc, 1),
                         !.obs = [NoObs EXCEPT !.ir = instruction, !.at = c.pc]]
        op == get_bits(12, 15, instruction)
    IN  execute_instruction(c1, op, instruction)

\* variant: the test is the wrong way round
should_halt_Inverted(c) == BitAnd(Memory_get(c.memory, MCR), Pow2(15)) # 0

\* variant: bit 0 is tested, not bit 15
should_halt_BitZero(c) == BitAnd(Memory_get(c.memory, MCR), Pow2(0)) = 0

should_halt(c) == BitAnd(Memory_get(c.memory, MCR), Pow2(15)) = 0

\* variant: the words are read low byte first
load_program_LittleEndian(c, file) ==
    LET origin == file[1] * 256 + file[2]
        buflen == Len(file) - 2
        nchunks == (buflen + 1) \div 2
        Bad(i) == (2 * i + 2 > buflen) \/ (i + origin >= MEMORY_SIZE)
        bad == {i \in 0 .. (nchunks - 1) : Bad(i)}
        stop == IF bad = {} THEN nchunks
                ELSE CHOOSE i \in bad : \A j \in bad : i <= j
        written == origin .. (origin + stop - 1)
        WordAt(a) == file[2 * (a - origin) + 4] * 256 + file[2 * (a - origin) + 3]
        old == c.memory.memory
        New(a) == IF a \in written THEN WordAt(a) ELSE old[a]
        dom == {a \in (DOMAIN old) \cup written : New(a) # 0}
    IN  IF Len(file) < 2 THEN c
        ELSE [c EXCEPT !.memory.memory = [a \in dom |-> New(a)],
                       !.aborted = (bad # {})]

\* load_program: a big-endian origin, then big-endian words written
\* straight into the array from memory[origin] on.  A file shorter than
\* two bytes is an Err and writes nothing.  buf.chunks(2) hands a last
\* chunk of one byte to chunk[1], and an index i + origin past the array
\* is out of bounds: both panic, after the writes that came before.
load_program(c, file) ==
    LET origin == file[1] * 256 + file[2]
        buflen == Len(file) - 2
        nchunks == (buflen + 1) \div 2
        Bad(i) == (2 * i + 2 > buflen) \/ (i + origin >= MEMORY_SIZE)
        bad == {i \in 0 .. (nchunks - 1) : Bad(i)}
        stop == IF bad = {} THEN nchunks
                ELSE CHOOSE i \in bad : \A j \in bad : i <= j
        written == origin .. (origin + stop - 1)
        WordAt(a) == file[2 * (a - origin) + 3] * 256 + file[2 * (a - origin) + 4]
        old == c.memory.memory
        New(a) == IF a \in written THEN WordAt(a) ELSE old[a]
        dom == {a \in (DOMAIN old) \cup written : New(a) # 0}
    IN  IF Len(file) < 2 THEN c
        ELSE [c EXCEPT !.memory.memory = [a \in dom |-> New(a)],
                       !.aborted = (bad # {})]

----------------------------------------------------------------------------
(* Object files given to exec: an operating system image, then a program   *)

WordsToBytes(words) ==
    SubSeq([i \in 1 .. (2 * Len(words)) |->
              IF i % 2 = 1 THEN words[(i + 1) \div 2] \div 256
                           ELSE words[i \div 2] % 256], 1, 2 * Len(words))

ObjectFile(origin, words) == WordsToBytes(<<origin>> \o words)

\* the words of an image from address 0 up to len - 1, zero where layout is silent
ImageWords(layout, len) ==
    [i \in 1 .. len |-> IF (i - 1) \in DOMAIN layout THEN layout[i - 1] ELSE 0]

OsEntry == \h0200

\* trap vectors, exception handlers that return at once, and a boot that
\* loads R1, R7 and R6 from the program's header and leaves through RTI
OsStd ==
    ObjectFile(0, ImageWords(
        \h0000 :> \h0208 @@ \h0025 :> \h0208 @@ \h00FF :> \h0100 @@
        \h0100 :> \h8000 @@ \h0101 :> \h8000 @@ \h0102 :> \h8000 @@
        \h0200 :> \hA203 @@   \* LDI R1, x0204
        \h0201 :> \hAE03 @@   \* LDI R7, x0205
        \h0202 :> \hAC03 @@   \* LDI R6, x0206
        \h0203 :> \h8000 @@   \* RTI
        \h0204 :> \h3002 @@ \h0205 :> \h3003 @@ \h0206 :> \h3004 @@
        \h0208 :> \hC1C0,     \* RET
        \h0209))

\* a system that keeps its supervisor stack at the top of memory, over
\* the PSR: it leaves for user mode at the address the PSR holds (x0004)
OsPsrStack ==
    ObjectFile(0, ImageWords(
        \h0004 :> \h8000 @@   \* RTI, run in user mode
        \h0100 :> \h8000 @@ \h0101 :> \h8000 @@ \h0102 :> \h8000 @@
        \h0200 :> \h2003 @@   \* LD  R0, x0204
        \h0201 :> \h2C03 @@   \* LD  R6, x0205
        \h0202 :> \h7181 @@   \* STR R0, R6, #1
        \h0203 :> \h8000 @@   \* RTI
        \h0204 :> \h8002 @@ \h0205 :> \hFFFC,
        \h0206))

\* no boot: the vector of TRAP x25 and a routine of one instruction,
\* STI R2,#0 through a pointer to MCR, under a program started at its origin
OsHalt == ObjectFile(\h0025, <<\h0026, \hB400, \hFFFE>>)

OsFiles == [std |-> OsStd, psr_stack |-> OsPsrStack, halt |-> OsHalt]

ProgramOrigin == \h3000

AddrVals == {\h0000, \h0001, \h2FFF, \h3000, \hFDFF, \hFE00, \hFE02, \hFFFC, \hFFFF}

StoreVals == {\h8005, \h0FFF}

FramePsrs == {\h8302, \h0401}

\* BR with nzp = 000 (no effect), or ADD R6, R1, #0
SetupInstrs == {\h0000, \h1C60}

TestInstrs ==
    { \h1447, \h147F,           \* ADD R2,R1,R7   ADD R2,R1,#-1
      \h5447, \h546F,           \* AND R2,R1,R7   AND R2,R1,#15
      \h947F,                   \* NOT R2,R1
      \h2400, \h25FD,           \* LD  R2,#0      LD  R2,#-3
      \hA400, \hA5FD,           \* LDI R2,#0      LDI R2,#-3
      \h6440, \h647F,           \* LDR R2,R1,#0   LDR R2,R1,#-1
      \hE405, \hE5FD,           \* LEA R2,#5      LEA R2,#-3
      \h3E00, \h3FFD,           \* ST  R7,#0      ST  R7,#-3
      \hBE00, \hBFFD,           \* STI R7,#0      STI R7,#-3
      \h7E40, \h7E7F,           \* STR R7,R1,#0   STR R7,R1,#-1
      \h0E02, \h0802, \h0402, \h03FE,   \* BRnzp, BRn, BRz, BRp
      \hC040, \hC1C0,           \* JMP R1         RET
      \h4805, \h4FFE,           \* JSR #5         JSR #-2
      \h4040, \h41C0,           \* JSRR R1        JSRR R7
      \h8000, \hD000,           \* RTI            (reserved)
      \hF025, \hF000, \hF0FF }  \* TRAP x25, x00, xFF

\* a program: a setup instruction, the instruction under test, the word
\* a both as the data after it and as R1, the word v for R7, and the
\* frame (stack pointer, PC, PSR) the boot leaves through
Program(setup, test, a, v, psr) ==
    ObjectFile(ProgramOrigin,
               <<setup, test, a, v, \h3005, ProgramOrigin, psr>>)

BootedPrograms ==
    { Program(s, t, a, v, p) :
        s \in SetupInstrs, t \in TestInstrs, a \in AddrVals,
        v \in StoreVals, p \in FramePsrs }

BarePrograms ==
    { Program(s, t, a, \h8005, \h8302) :
        s \in SetupInstrs, t \in TestInstrs, a \in AddrVals }

\* ADD R0,R0,#1 ; HALT
ImageS1 == ObjectFile(ProgramOrigin, <<\h1021, \hF025>>)

\* files that lie over what is loaded already: over the boot of the
\* operating system, and over MCR and the last word of memory
OverlayFiles ==
    { ObjectFile(\h0200, <<\hF025, \h0000>>),
      ObjectFile(\hFFFE, <<\hFFFF, \h1234>>),
      ObjectFile(\hFFFE, <<\h7FFF, \h1234>>) }

\* files that buf.chunks(2) does not take to the end: one with a single
\* byte after its last whole word, and one whose second word would have the
\* index 65536
RaggedFiles ==
    { ObjectFile(ProgramOrigin, <<\h1021>>) \o <<\hF0>>,
      ObjectFile(\hFFFF, <<\h1234, \h5678>>) }

PgmFiles(os) ==
    CASE os = << >>          -> BarePrograms \cup {ImageS1} \cup OverlayFiles \cup RaggedFiles
      [] os = <<"std">>       -> BootedPrograms \cup OverlayFiles \cup RaggedFiles
      [] os = <<"psr_stack">> -> { Program(\h0000, \h0000, 0, 0, 0) }
      [] os = <<"halt">>      -> { ImageS1 }

InitialInput == <<65>>

----------------------------------------------------------------------------
(* The record of the device registers' use: the keys that have arrived,   *)
(* the keys KBDR reads have delivered, every read of the keyboard with    *)
(* the word it returned, the number of keys arrived by then and the        *)
(* number it took from stdin, the number of stores to DDR and the words    *)
(* stored, and the last operation                                          *)

NoIo == [arrived |-> << >>, delivered |-> << >>, reads |-> << >>,
         stores |-> 0, ddr |-> << >>, last |-> [op |-> "none", addr |-> 0, value |-> 0]]

\* no function is called on its own
NoCall == [fn |-> "none", args |-> << >>, returned |-> FALSE,
           result |-> [err |-> FALSE, v |-> 0]]

\* the assembler when it is not run
NoAsm == [at |-> "none",
          parser |-> [scanner |-> << >>, location_cursor |-> 0,
                      labels |-> [l \in {} |-> 0]],
          origin |-> 0, lines |-> << >>, machine_code |-> << >>, line |-> 0,
          source |-> << >>, listing |-> << >>]

----------------------------------------------------------------------------
(* exec.rs main: Cpu::new, the loads, cpu.pc, then the run loop            *)

Init ==
    /\ cpu = Cpu_new(InitialInput)
    /\ phase = "new"
    /\ steps = 0
    /\ loaded = << >>
    /\ third_edition \in BOOLEAN
    /\ overflow_checks \in BOOLEAN
    /\ io = NoIo
    /\ asm = NoAsm
    /\ call = NoCall

LoadOs ==
    /\ phase = "new"
    /\ \E name \in DOMAIN OsFiles :
          /\ cpu' = load_program(cpu, OsFiles[name])
          /\ loaded' = <<name>>
    /\ phase' = "os"
    /\ UNCHANGED <<steps, third_edition, overflow_checks, io, asm, call>>

LoadPgm ==
    /\ phase \in {"new", "os"}
    /\ ~cpu.aborted
    /\ \E file \in PgmFiles(loaded) : cpu' = load_program(cpu, file)
    /\ loaded' = Append(loaded, "pgm")
    /\ phase' = "pgm"
    /\ UNCHANGED <<steps, third_edition, overflow_checks, io, asm, call>>

\* cpu.pc = 0x0200 under an operating system that boots, else the
\* program's origin
EntryPc(files) ==
    IF Len(files) = 2 /\ files[1] # "halt" THEN OsEntry ELSE ProgramOrigin

Start ==
    /\ phase = "pgm"
    /\ ~cpu.aborted
    /\ cpu' = [cpu EXCEPT !.pc = EntryPc(loaded)]
    /\ phase' = "run"
    /\ UNCHANGED <<steps, loaded, third_edition, overflow_checks, io, asm, call>>

\* one turn of the loop: cpu.step(), then break if cpu.should_halt()
Step ==
    /\ phase = "run"
    /\ ~cpu.aborted
    /\ steps < MaxSteps
    /\ cpu' = step(cpu)
    /\ steps' = steps + 1
    /\ phase' = IF ~cpu'.aborted /\ should_halt(cpu') THEN "halted" ELSE "run"
    /\ UNCHANGED <<loaded, third_edition, overflow_checks, io, asm, call>>

Next == LoadOs \/ LoadPgm \/ Start \/ Step

Spec == Init /\ [][Next]_vars

----------------------------------------------------------------------------
(* The device registers driven directly: Memory::get and Memory::set at    *)
(* KBSR, KBDR, DSR and DDR on a fresh Cpu, as the loads and stores of a    *)
(* program in supervisor mode reach them, and keys arriving at stdin       *)

Keys == {\h41, \h42}

DevWords == {\h000A, \h010A, \h0041}

\* the number of keys read_u8 has taken from stdin
Taken(c) == Len(io.arrived) - Len(c.memory.keyboard_io.stdin)

IoInit ==
    /\ cpu = Cpu_new(<< >>)
    /\ phase = "io"
    /\ steps = 0
    /\ loaded = << >>
    /\ third_edition = FALSE
    /\ overflow_checks = FALSE
    /\ io = NoIo
    /\ asm = NoAsm
    /\ call = NoCall

KeyArrives ==
    /\ phase = "io"
    /\ Len(io.arrived) < MaxKeys
    /\ \E key \in Keys :
          /\ cpu' = [cpu EXCEPT !.memory.keyboard_io.stdin = Append(@, key)]
          /\ io' = [io EXCEPT !.arrived = Append(@, key),
                              !.last = [op |-> "key", addr |-> 0, value |-> key]]
    /\ UNCHANGED <<phase, steps, loaded, third_edition, overflow_checks, asm, call>>

\* self.memory.get(addr); a KBDR read delivers a key when one has been
\* taken from stdin that no KBDR read has delivered yet.  Reads of the
\* keyboard registers are recorded, up to MaxReads of them.
ReadDev ==
    /\ phase = "io"
    /\ \E addr \in {KBSR, KBDR, DSR} :
          LET value == Memory_get(cpu.memory, addr)
              after == Cpu_get_io(cpu, addr)
          IN  /\ addr # DSR => Len(io.reads) < MaxReads
              /\ cpu' = after
              /\ io' = [io EXCEPT
                    !.reads = IF addr = DSR THEN @
                              ELSE Append(@, [addr |-> addr, value |-> value,
                                              keys |-> Len(io.arrived),
                                              took |-> Taken(after) - Taken(cpu)]),
                    !.delivered = IF addr = KBDR /\ Taken(after) > Len(@)
                                  THEN Append(@, value) ELSE @,
                    !.last = [op |-> "get", addr |-> addr, value |-> value]]
    /\ UNCHANGED <<phase, steps, loaded, third_edition, overflow_checks, asm, call>>

\* self.memory.set(addr, value) at a read-only register
StoreDev ==
    /\ phase = "io"
    /\ \E addr \in {KBSR, KBDR, DSR} : \E value \in DevWords :
          /\ cpu' = Cpu_set(cpu, addr, value)
          /\ io' = [io EXCEPT !.last = [op |-> "set", addr |-> addr, value |-> value]]
    /\ UNCHANGED <<phase, steps, loaded, third_edition, overflow_checks, asm, call>>

IoNext == KeyArrives \/ ReadDev \/ StoreDev

IoSpec == IoInit /\ [][IoNext]_vars

----------------------------------------------------------------------------
(* The display driven directly: stores to DDR on a fresh Cpu               *)

\* self.memory.set(DDR, value)
StoreDdr ==
    /\ phase = "io"
    /\ io.stores < MaxStores
    /\ \E value \in DevWords :
          /\ cpu' = Cpu_set(cpu, DDR, value)
          /\ io' = [io EXCEPT !.stores = @ + 1,
                              !.ddr = Append(@, value),
                              !.last = [op |-> "set", addr |-> DDR, value |-> value]]
    /\ UNCHANGED <<phase, steps, loaded, third_edition, overflow_checks, asm, call>>

DdrSpec == IoInit /\ [][StoreDdr]_vars

----------------------------------------------------------------------------
(* Vocabulary of the properties                                            *)

\* the transition is a turn of the run loop
StepTaken == steps' = steps + 1

\* the instruction the next step fetches, and its opcode
Fetched(c) == Memory_get(c.memory, c.pc)

FetchedOp(c) == get_bits(12, 15, Fetched(c))

\* the Cpu once the instruction is fetched and the PC incremented
AfterFetch(c) == [Cpu_get_io(c, c.pc) EXCEPT !.pc = wrapping_add(c.pc, 1)]

\* effective address of a PC-relative (9-bit) or base+offset (6-bit) access
EA9(c) ==
    wrapping_add(wrapping_add(c.pc, 1), sign_extend(9, get_bits(0, 8, Fetched(c))))

EA6(c) ==
    wrapping_add(get_reg_lo(c, Fetched(c)), sign_extend(6, get_bits(0, 5, Fetched(c))))

\* the indirect address LDI and STI read from memory
Pointer(c) == Memory_get(AfterFetch(c).memory, EA9(c))

\* outside user space: supervisor memory or device register space
Protected(addr) == addr <= \h2FFF \/ addr >= \hFE00

\* the next step is a load or store to a protected address
ProtectedAccess(c) ==
    \/ FetchedOp(c) \in {Ld, St, Ldi, Sti} /\ Protected(EA9(c))
    \/ FetchedOp(c) \in {Ldi, Sti} /\ Protected(Pointer(c))
    \/ FetchedOp(c) \in {Ldr, Str} /\ Protected(EA6(c))

Ran == phase \in {"run", "halted"} /\ steps > 0

----------------------------------------------------------------------------
(* C1: in user mode, every LD, LDI, LDR, ST, STI or STR whose effective    *)
(* address, or whose indirect address for LDI and STI, is outside          *)
(* 0x3000-0xFDFF raises exception 0x02: the step ends with PC = 0x0102     *)
(* and PSR[15] = 0, and with R0-R5 and R7 as they were.                    *)
C1_AccessViolationRaised ==
    [][ (StepTaken /\ UserMode(cpu) /\ ProtectedAccess(cpu))
        => /\ cpu'.pc = \h0102
           /\ ~UserMode(cpu')
           /\ \A r \in {0, 1, 2, 3, 4, 5, 7} :
                 cpu'.registers[r] = cpu.registers[r] ]_vars

----------------------------------------------------------------------------
(* C2: a ST, STI or STR that raises an access-control violation in user    *)
(* mode stores nothing: the step writes no memory word other than the two  *)
(* pushed on the supervisor stack (and the user bit of the PSR), and       *)
(* sends nothing to the display.                                           *)
C2_RefusedStoreWritesNothing ==
    [][ (StepTaken /\ UserMode(cpu) /\ FetchedOp(cpu) \in {St, Sti, Str}
           /\ cpu'.obs.raised = <<2>>)
        => LET s == cpu.saved_ssp
               pushed == {(s + WordSize - 1) % WordSize, (s + WordSize - 2) % WordSize}
               old == cpu.memory.memory
               new == cpu'.memory.memory
           IN  /\ \A a \in ((DOMAIN old) \cup (DOMAIN new)) \ (pushed \cup {PSR}) :
                     ArrayGet(new, a) = ArrayGet(old, a)
               /\ (PSR \notin pushed) => ArrayGet(new, PSR) = ArrayGet(old, PSR) - 32768
               /\ cpu'.memory.stdout = cpu.memory.stdout ]_vars

----------------------------------------------------------------------------
(* C3: after an ADD, AND, NOT, LD, LDI or LDR that raises no exception,    *)
(* PSR[2:0] is the one of 100, 010, 001 given by the sign of the 16-bit    *)
(* value now in the destination register, and PSR[15:3] is as it was.      *)
C3_ConditionCodes ==
    [][ (StepTaken /\ FetchedOp(cpu) \in {Add, And, Not, Ld, Ldi, Ldr}
           /\ cpu'.obs.raised = << >> /\ ~cpu'.aborted)
        => LET value == cpu'.registers[get_bits(9, 11, Fetched(cpu))]
           IN  /\ PsrOf(cpu') % 8 = (IF value >= 32768 THEN 4
                                     ELSE IF value = 0 THEN 2 ELSE 1)
               /\ PsrOf(cpu') \div 8 = PsrOf(cpu) \div 8 ]_vars

\* a user-mode LD at priority 3 has loaded a negative word: N alone is set
C3_Witness ==
    /\ Ran /\ cpu.obs.ir = \h2400 /\ cpu.obs.raised = << >>
    /\ cpu.registers[2] = \hFDFF
    /\ PsrOf(cpu) = \h8304

----------------------------------------------------------------------------
----------------------------------------------------------------------------
(* C5: JSR and JSRR compute the target before R7 is overwritten: JSRR      *)
(* jumps to the value its base register held before the step, R7 included, *)
(* JSR to PC + sext(offset11), and R7 gets the address after the           *)
(* instruction.                                                            *)
C5_JsrTargetBeforeLink ==
    [][ (StepTaken /\ FetchedOp(cpu) = Jsr)
        => /\ cpu'.pc = IF get_bits(11, 11, Fetched(cpu)) = 1
                        THEN wrapping_add(wrapping_add(cpu.pc, 1),
                                 sign_extend(11, get_bits(0, 10, Fetched(cpu))))
                        ELSE cpu.registers[get_bits(6, 8, Fetched(cpu))]
           /\ cpu'.registers[7] = wrapping_add(cpu.pc, 1) ]_vars

\* JSRR R7 at x3001 with R7 = x8005 has jumped to x8005 and linked x3002
C5_Witness ==
    /\ Ran /\ cpu.obs.ir = \h41C0 /\ cpu.obs.at = \h3001
    /\ cpu.pc = \h8005
    /\ cpu.registers[7] = \h3002

----------------------------------------------------------------------------
(* C6: in a build without the feature third_edition, TRAP v at address a   *)
(* sets R7 = a + 1 and PC = mem[v], and leaves the PSR, R0-R6, saved_usp,  *)
(* saved_ssp, the memory array, the keyboard and the display as they were. *)
C6_TrapSecondEdition ==
    [][ (StepTaken /\ ~third_edition /\ FetchedOp(cpu) = Trap)
        => /\ cpu'.registers[7] = wrapping_add(cpu.pc, 1)
           /\ cpu'.pc = ArrayGet(cpu.memory.memory, get_bits(0, 7, Fetched(cpu)))
           /\ \A r \in 0 .. 6 : cpu'.registers[r] = cpu.registers[r]
           /\ cpu'.saved_usp = cpu.saved_usp
           /\ cpu'.saved_ssp = cpu.saved_ssp
           /\ cpu'.memory = cpu.memory
           /\ cpu'.obs.entry = << >> /\ ~cpu'.aborted ]_vars

\* TRAP x25 at x3001 in user mode: PC from the vector table, R7 linked,
\* still in user mode
C6_Witness ==
    /\ Ran /\ ~third_edition /\ cpu.obs.ir = \hF025 /\ cpu.obs.at = \h3001
    /\ cpu.pc = \h0208
    /\ cpu.registers[7] = \h3002
    /\ PsrOf(cpu) = \h8302

----------------------------------------------------------------------------
\* the stack pointer exception entry pushes below
EntryTop(c) == IF UserMode(c) THEN c.saved_ssp ELSE c.registers[6]

\* both words pushed below top land below the device register space
OrdinaryStack(top) == top >= 2 /\ top <= \hFE00

\* what is said of the state after exception entry from the state pre
EntryEffect(pre) ==
    LET post == enter_supervisor_mode(pre)
        top == EntryTop(pre)
    IN  /\ post.registers[6] = (top + WordSize - 2) % WordSize
        /\ Memory_get(post.memory, (top + WordSize - 1) % WordSize) = PsrOf(pre)
        /\ Memory_get(post.memory, (top + WordSize - 2) % WordSize) = pre.pc
        /\ IF UserMode(pre)
           THEN /\ post.saved_usp = pre.registers[6]
                /\ PsrOf(post) = PsrOf(pre) - 32768
           ELSE /\ post.saved_usp = pre.saved_usp
                /\ post.saved_ssp = pre.saved_ssp

\* the states in which the last step entered supervisor mode
Entries == {cpu.obs.entry[i] : i \in 1 .. Len(cpu.obs.entry)}

----------------------------------------------------------------------------
\* handle_exception(v) and then RTI, from the state pre
RoundTrip(pre, v) == execute_instruction(handle_exception(pre, v), Rti, \h8000)

(* C8: from every state, in user or supervisor mode, whose supervisor      *)
(* stack lies in ordinary memory, handle_exception(v) followed at once by  *)
(* RTI restores PC, PSR, R0-R7 and saved_ssp.                              *)
C8_ExceptionRtiRoundTrip ==
    \A pre \in {[cpu EXCEPT !.obs = NoObs]} \cup Entries :
        \A v \in {0, 1, 2} :
            (~pre.aborted /\ OrdinaryStack(EntryTop(pre)))
            => LET post == RoundTrip(pre, v)
               IN  /\ ~post.aborted
                   /\ post.pc = pre.pc
                   /\ PsrOf(post) = PsrOf(pre)
                   /\ post.registers = pre.registers
                   /\ post.saved_ssp = pre.saved_ssp

\* the handler's RTI at x0102 has returned to user mode at x3002, just after
\* the access violation of the instruction at x3001
C8_Witness ==
    /\ Ran /\ cpu.obs.ir = \h8000 /\ cpu.obs.at = \h0102
    /\ cpu.pc = \h3002
    /\ PsrOf(cpu) = \h8302
    /\ cpu.saved_ssp = \h3007
    /\ cpu.registers[6] = \hFE00

----------------------------------------------------------------------------
\* what is said of the state after a step that fetches RTI in user mode
UserRtiEffect ==
    /\ cpu'.obs.raised = <<0>>
    /\ cpu'.pc = \h0100
    /\ PsrOf(cpu') = PsrOf(cpu) - 32768
    /\ cpu'.saved_usp = cpu.registers[6]
    /\ cpu'.registers[6] = (cpu.saved_ssp + WordSize - 2) % WordSize
    /\ cpu'.saved_ssp = cpu.saved_ssp

(* C9, as stated: RTI with PSR[15] = 1 raises exception 0 and pops         *)
(* nothing: PC becomes x0100, the PSR changes only by losing bit 15, and   *)
(* the user stack pointer is kept in saved_usp. Wherever the supervisor    *)
(* stack lies.                                                             *)
C9_UserRtiAnyStack ==
    [][ (StepTaken /\ UserMode(cpu) /\ FetchedOp(cpu) = Rti)
        => (cpu'.aborted \/ UserRtiEffect) ]_vars

(* C9, amended: the same, when saved_ssp is at least 2 and neither word    *)
(* pushed by the exception lands on the PSR's address xFFFC; such a step   *)
(* completes.                                                              *)
C9_UserRti ==
    [][ (StepTaken /\ UserMode(cpu) /\ FetchedOp(cpu) = Rti
           /\ cpu.saved_ssp >= 2 /\ cpu.saved_ssp \notin {PSR + 1, PSR + 2})
        => (~cpu'.aborted /\ UserRtiEffect) ]_vars

\* RTI at x3001 in user mode: exception 0 is raised, nothing is popped
C9_Witness ==
    /\ Ran /\ cpu.obs.ir = \h8000 /\ cpu.obs.at = \h3001
    /\ cpu.obs.raised = <<0>>
    /\ cpu.pc = \h0100
    /\ PsrOf(cpu) = \h0302
    /\ cpu.saved_usp = \hFE00
    /\ cpu.registers[6] = \h3005

----------------------------------------------------------------------------
(* C10: whenever a step has raised an exception v (0: RTI in user mode,    *)
(* 1: opcode 13, 2: access violation), the state at the end of the step    *)
(* has PSR[15] = 0 and PC = x0100 | v.                                     *)
C10_ExceptionEndsInSupervisor ==
    (Ran /\ ~cpu.aborted /\ cpu.obs.raised # << >>)
    => /\ ~UserMode(cpu)
       /\ cpu.pc = BitOr(256, cpu.obs.raised[Len(cpu.obs.raised)])

----------------------------------------------------------------------------
\* a key has been taken from stdin that no KBDR read has delivered yet
KeyBuffered == Taken(cpu) > Len(io.delivered)

\* the addresses and the words of the reads recorded
ReadAddrs == [i \in 1 .. Len(io.reads) |-> io.reads[i].addr]

ReadValues == [i \in 1 .. Len(io.reads) |-> io.reads[i].value]

(* C11: a read of KBSR returns x8000 if, after it, a key is buffered that  *)
(* no KBDR read has returned yet, and x0000 if not; and with the one key   *)
(* x41 pending, the reads KBSR, KBDR, KBSR return x8000, x0041, x0000.     *)
C11_KbsrTellsBufferedKey ==
    /\ (io.last.op = "get" /\ io.last.addr = KBSR)
       => io.last.value = (IF KeyBuffered THEN 32768 ELSE 0)
    /\ (io.arrived = <<\h41>> /\ ReadAddrs = <<KBSR, KBDR, KBSR>>
          /\ io.reads[1].keys = 1)
       => ReadValues = <<\h8000, \h0041, \h0000>>

\* x41 arrived, then KBSR, KBDR and KBSR were read, the last one just now
C11_Witness ==
    /\ phase = "io" /\ io.arrived = <<\h41>>
    /\ ReadAddrs = <<KBSR, KBDR, KBSR>> /\ io.reads[1].keys = 1
    /\ io.last = [op |-> "get", addr |-> KBSR, value |-> 0]
    /\ io.delivered = <<\h41>>

----------------------------------------------------------------------------
(* C12: over any interleaving of KBSR reads, KBDR reads and arrivals, no   *)
(* key is lost or reordered: a key is taken from stdin only when the key   *)
(* taken before it has been returned by a KBDR read, a run of KBSR reads   *)
(* with no KBDR read among them takes at most one key, and the KBDR reads  *)
(* made while a key is buffered return the keys in the order of arrival,  *)
(* each once.                                                              *)
C12_NoKeyLostOrReordered ==
    /\ Taken(cpu) \in 0 .. Len(io.arrived)
    /\ Len(io.delivered) <= Taken(cpu)
    /\ Taken(cpu) <= Len(io.delivered) + 1
    /\ \A i \in 1 .. Len(io.reads) : \A j \in i .. Len(io.reads) :
          (\A k \in i .. j : io.reads[k].addr = KBSR)
          => Cardinality({k \in i .. j : io.reads[k].took # 0}) <= 1
             /\ \A k \in i .. j : io.reads[k].took \in {0, 1}
    /\ io.delivered = SubSeq(io.arrived, 1, Len(io.delivered))

\* two keys arrived before any read; KBSR, KBSR, KBDR, KBDR were read and
\* the KBDR reads returned x41, then x42
C12_Witness ==
    /\ phase = "io" /\ io.arrived = <<\h41, \h42>>
    /\ ReadAddrs = <<KBSR, KBSR, KBDR, KBDR>> /\ io.reads[1].keys = 2
    /\ ReadValues = <<\h8000, \h8000, \h0041, \h0042>>
    /\ io.delivered = <<\h41, \h42>>

----------------------------------------------------------------------------
\* the bytes the sink has received
Sink(c) == c.memory.stdout.sink

(* C13: a store to DDR of a word whose low byte is x0A sends x0D and then  *)
(* x0A to the sink, a store of any other word sends its low byte alone,    *)
(* and neither changes the memory array.                                   *)
C13_DdrStoreEmits ==
    [][ (io'.stores = io.stores + 1)
        => LET low == io'.last.value % 256
           IN  /\ Sink(cpu') = Sink(cpu) \o (IF low = 10 THEN <<13, 10>>
                                                         ELSE <<low>>)
               /\ cpu'.memory.memory = cpu.memory.memory ]_vars

----------------------------------------------------------------------------
\* bytes are the low bytes of values in order, a line feed possibly with
\* a carriage return put before it
RECURSIVE LowBytesOf(_, _)
LowBytesOf(values, bytes) ==
    IF values = << >> THEN bytes = << >>
    ELSE LET low == Head(values) % 256
         IN  \/ /\ Len(bytes) >= 1 /\ bytes[1] = low
                /\ LowBytesOf(Tail(values), Tail(bytes))
             \/ /\ low = 10 /\ Len(bytes) >= 2
                /\ bytes[1] = 13 /\ bytes[2] = 10
                /\ LowBytesOf(Tail(values), SubSeq(bytes, 3, Len(bytes)))

(* C14: the bytes the sink has received are, in order, the low bytes of    *)
(* the words stored to DDR so far, with the carriage returns put before    *)
(* line feeds, and no byte written is left unflushed when the store        *)
(* returns.                                                                *)
C14_OutputInOrderAndFlushed ==
    /\ LowBytesOf(io.ddr, Sink(cpu))
    /\ cpu.memory.stdout.buffer = << >>

\* x0041, x000A and x010A were stored to DDR: the sink holds A, CR, LF, LF
C14_Witness ==
    /\ phase = "io" /\ io.ddr = <<\h0041, \h000A, \h010A>>
    /\ Sink(cpu) = <<\h41, 13, 10, 10>>
    /\ cpu.memory.stdout.buffer = << >>

----------------------------------------------------------------------------
(* C15: a store to KBSR, KBDR or DSR changes nothing (memory array,        *)
(* keyboard, output), and a read of DSR returns x8000 in every state.      *)
C15_ReadOnlyRegisters ==
    [][ /\ (io'.last.op = "set" /\ io'.last.addr \in {KBSR, KBDR, DSR})
           => cpu' = cpu
        /\ (io'.last.op = "get" /\ io'.last.addr = DSR)
           => io'.last.value = 32768
        /\ Memory_get(cpu'.memory, DSR) = 32768 ]_vars

\* x0041 has just been stored to KBSR while the key x42 was buffered, and
\* the key is still buffered
C15_Witness ==
    /\ phase = "io" /\ io.last = [op |-> "set", addr |-> KBSR, value |-> \h0041]
    /\ io.arrived = <<\h42>> /\ KeyBuffered
    /\ cpu.memory.keyboard_io.kbdr = \h42
    /\ cpu.memory.memory = (MCR :> 65535)
    /\ Sink(cpu) = << >>

----------------------------------------------------------------------------
\* MCR[15] = 0
McrClear(c) == Memory_get(c.memory, MCR) < 32768

\* the image [x3000, x1021, xF025] is what runs, from x3000, in the build
\* without third_edition, over the files os loaded before it
RunsS1(os) ==
    /\ Ran /\ ~third_edition /\ loaded = Append(os, "pgm")
    /\ ArrayGet(cpu.memory.memory, \h3000) = \h1021
    /\ ArrayGet(cpu.memory.memory, \h3001) = \hF025

\* the run loop has stopped after exactly three steps, R0 = 1, P alone set
HaltedAfterThree ==
    /\ ~cpu.aborted
    /\ steps < 3 => phase = "run"
    /\ steps >= 3 => (/\ steps = 3 /\ phase = "halted"
                      /\ cpu.registers[0] = 1 /\ PsrOf(cpu) % 8 = 1)

(* C16, as stated: the image [x3000, x1021, xF025] loaded into a fresh     *)
(* Cpu and run from x3000 halts after three steps with R0 = 1 and          *)
(* PSR[2:0] = 001.                                                         *)
C16_S1HaltsOnFreshCpu == RunsS1(<< >>) => HaltedAfterThree

(* C16, amended: it does so when mem[x25] points to a routine whose first  *)
(* instruction clears MCR[15]; on a fresh Cpu the second step sets         *)
(* R7 = x3002 and PC = mem[x25] = 0, and MCR[15] is still 1 after the      *)
(* third step and after those that follow: R0 = 1 and PSR[2:0] = 001 from  *)
(* the first step on, but no halt.                                         *)
C16_S1Halts ==
    /\ RunsS1(<<"halt">>) => HaltedAfterThree
    /\ RunsS1(<< >>)
       => /\ ~cpu.aborted /\ phase = "run" /\ ~McrClear(cpu)
          /\ cpu.registers[0] = 1 /\ PsrOf(cpu) % 8 = 1
          /\ steps >= 2 => cpu.registers[7] = \h3002
          /\ steps = 2 => cpu.pc = 0

\* the image has halted after its third step, the routine's store to MCR
C16_Witness ==
    /\ RunsS1(<<"halt">>) /\ steps = 3 /\ phase = "halted"
    /\ cpu.obs.ir = \hB400 /\ cpu.obs.at = \h0026
    /\ cpu.registers[0] = 1 /\ cpu.registers[7] = \h3002
    /\ PsrOf(cpu) = 1
    /\ Memory_get(cpu.memory, MCR) = 0

----------------------------------------------------------------------------
\* the address the store instruction about to be fetched writes to
StoreTarget(c) ==
    CASE FetchedOp(c) = St  -> EA9(c)
      [] FetchedOp(c) = Sti -> Pointer(c)
      [] FetchedOp(c) = Str -> EA6(c)

\* the step is a store instruction of the program to MCR
StoresToMcr ==
    FetchedOp(cpu) \in {St, Sti, Str} /\ StoreTarget(cpu) = MCR

\* the step entered supervisor mode and one of the two words pushed
\* landed on MCR
PushesOnMcr ==
    \E i \in 1 .. Len(cpu'.obs.entry) :
        LET top == EntryTop(cpu'.obs.entry[i])
        IN  MCR \in {(top + WordSize - 1) % WordSize,
                     (top + WordSize - 2) % WordSize}

\* the loop stops at the end of the first step that leaves MCR[15] = 0,
\* not before, and makes no step after
StopsAtFirstClearMcr ==
    /\ phase # "halted"
    /\ phase' = "halted" => (StepTaken /\ McrClear(cpu'))
    /\ (StepTaken /\ ~cpu'.aborted /\ McrClear(cpu')) => phase' = "halted"

(* C17, as stated: the run loop stops exactly at the end of the first step *)
(* after which MCR[15] = 0, never while MCR[15] = 1, makes no step once    *)
(* stopped, and stops only because the program stored to MCR.              *)
C17_HaltOnlyByProgramStore ==
    [][ /\ StopsAtFirstClearMcr
        /\ phase' = "halted" => StoresToMcr ]_vars

(* C17, amended: the same, where the word with bit 15 clear came to MCR    *)
(* by a store instruction of the step, by a word that the step's entry to  *)
(* supervisor mode pushed on xFFFE, or by load_program before the run.     *)
C17_HaltsWhenMcrCleared ==
    [][ /\ StopsAtFirstClearMcr
        /\ phase' = "halted"
           => \/ StoresToMcr
              \/ PushesOnMcr
              \/ (steps = 0 /\ McrClear(cpu)) ]_vars

\* in supervisor mode STR R7,R1,#-1 with R1 = xFFFF and R7 = x0FFF has
\* stored to MCR, and the loop has stopped there
C17_Witness ==
    /\ phase = "halted" /\ steps = 6
    /\ cpu.obs.ir = \h7E7F /\ cpu.obs.at = \h3001 /\ cpu.obs.raised = << >>
    /\ Memory_get(cpu.memory, MCR) = \h0FFF

----------------------------------------------------------------------------
\* the files load_program is tried on: the images above and an image of
\* no words
LoadCases ==
    OverlayFiles \cup {OsStd, OsHalt, ImageS1, ObjectFile(ProgramOrigin, << >>)}

FileOrigin(file) == file[1] * 256 + file[2]

FileWordCount(file) == (Len(file) - 2) \div 2

FileWord(file, i) == file[2 * i + 3] * 256 + file[2 * i + 4]

\* an origin followed by whole words that all have an address
WholeWords(file) ==
    /\ Len(file) >= 2 /\ Len(file) % 2 = 0
    /\ FileOrigin(file) + FileWordCount(file) <= MEMORY_SIZE

\* what is said of load_program(file) from the state c
LoadEffect(c, file) ==
    LET post == load_program(c, file)
        covered == {FileOrigin(file) + i : i \in 0 .. (FileWordCount(file) - 1)}
        old == c.memory.memory
        new == post.memory.memory
    IN  /\ ~post.aborted
        /\ \A i \in 0 .. (FileWordCount(file) - 1) :
              ArrayGet(new, FileOrigin(file) + i) = FileWord(file, i)
        /\ \A a \in ((DOMAIN old) \cup (DOMAIN new)) \ covered :
              ArrayGet(new, a) = ArrayGet(old, a)
        /\ post.registers = c.registers
        /\ post.pc = c.pc
        /\ post.saved_ssp = c.saved_ssp
        /\ post.saved_usp = c.saved_usp
        /\ post.memory.keyboard_io = c.memory.keyboard_io
        /\ post.memory.stdout = c.memory.stdout

(* C18: load_program on an origin o followed by N big-endian words sets    *)
(* memory[o+i] to word i for every i < N and leaves every other word, the  *)
(* registers, the PC and the saved stack pointers alone; a second load     *)
(* overwrites the words it covers and nothing else.  (The words are taken  *)
(* to have addresses: o + N <= 65536.)                                     *)
C18_LoadProgramFrame ==
    (phase \in {"new", "os"} /\ ~cpu.aborted)
    => \A file \in LoadCases : WholeWords(file) => LoadEffect(cpu, file)

\* the second load has put xF025 and x0000 over the first two words of the
\* operating system's boot and left its other words as they were
C18_Witness ==
    /\ phase = "pgm" /\ loaded = <<"std", "pgm">> /\ ~cpu.aborted
    /\ ArrayGet(cpu.memory.memory, \h0200) = \hF025
    /\ ArrayGet(cpu.memory.memory, \h0201) = 0
    /\ ArrayGet(cpu.memory.memory, \h0202) = \hAC03
    /\ ArrayGet(cpu.memory.memory, \h0025) = \h0208
    /\ cpu.pc = 0 /\ cpu.saved_ssp = \h3000

----------------------------------------------------------------------------
(* The parser (src/src/asm_parser.rs), from the tokens of the lexer on     *)

\* a Token with what its callback attached: n for Number and Register and
\* for Br (the tuple (n, z, p) as the number 4n + 2z + p), s for Label,
\* b for String (the bytes of the slice, both quotes included)
Token(t) == [t |-> t, n |-> 0, s |-> "", b |-> << >>]

Token_Number(n) == [Token("Number") EXCEPT !.n = n]

Token_Register(r) == [Token("Register") EXCEPT !.n = r]

Token_Br(nzp) == [Token("Br") EXCEPT !.n = nzp]

Token_Label(s) == [Token("Label") EXCEPT !.s = s]

Token_String(b) == [Token("String") EXCEPT !.b = b]

None == Token("None")

\* Result<Option<T>>, with the parser as the call left it
Err(p) == [err |-> TRUE, some |-> FALSE, v |-> None, p |-> p]

OkNone(p) == [err |-> FALSE, some |-> FALSE, v |-> None, p |-> p]

OkSome(v, p) == [err |-> FALSE, some |-> TRUE, v |-> v, p |-> p]

\* The lexer is taken token by token, each lexeme standing for the token
\* it gives, except for a word between blanks, which is given as its
\* slice (t = "Word", b the bytes) and lexed here

Lower(c) == IF c >= 65 /\ c <= 90 THEN c + 32 ELSE c

\* what n?z?p? matches, in lower case
BrSuffixes ==
    { << >>, <<110>>, <<122>>, <<112>>, <<110, 122>>, <<110, 112>>, <<122, 112>>,
      <<110, 122, 112>> }

MatchesBr(slice) ==
    [i \in 1 .. Len(slice) |-> Lower(slice[i])] \in {<<98, 114>> \o sfx : sfx \in BrSuffixes}

\* (slice.contains('n'), slice.contains('z'), slice.contains('p'))
brnzp(slice) ==
    LET contains(c) == \E i \in 1 .. Len(slice) : slice[i] = c
    IN  (IF contains(110) THEN 4 ELSE 0) + (IF contains(122) THEN 2 ELSE 0)
        + (IF contains(112) THEN 1 ELSE 0)

\* the #[token(.., ignore(case))] rules: the text in lower case and the
\* token it gives
Keywords ==
    { <<<<46, 111, 114, 105, 103>>, "Orig">>,
      <<<<46, 102, 105, 108, 108>>, "Fill">>,
      <<<<46, 98, 108, 107, 119>>, "Blkw">>,
      <<<<46, 115, 116, 114, 105, 110, 103, 122>>, "Stringz">>,
      <<<<46, 101, 110, 100>>, "End">>,
      <<<<97, 100, 100>>, "Add">>,
      <<<<97, 110, 100>>, "And">>,
      <<<<106, 109, 112>>, "Jmp">>,
      <<<<106, 115, 114>>, "Jsr">>,
      <<<<106, 115, 114, 114>>, "Jsrr">>,
      <<<<108, 100, 105>>, "Ldi">>,
      <<<<108, 100, 114>>, "Ldr">>,
      <<<<108, 100>>, "Ld">>,
      <<<<108, 101, 97>>, "Lea">>,
      <<<<110, 111, 116>>, "Not">>,
      <<<<114, 101, 116>>, "Ret">>,
      <<<<114, 116, 105>>, "Rti">>,
      <<<<115, 116, 105>>, "Sti">>,
      <<<<115, 116, 114>>, "Str">>,
      <<<<115, 116>>, "St">>,
      <<<<116, 114, 97, 112>>, "Trap">>,
      <<<<103, 101, 116, 99>>, "Getc">>,
      <<<<104, 97, 108, 116>>, "Halt">>,
      <<<<105, 110>>, "In">>,
      <<<<111, 117, 116>>, "Out">>,
      <<<<112, 117, 116, 115>>, "Puts">>,
      <<<<112, 117, 116, 115, 112>>, "Putsp">> }

LowerCase(slice) == [i \in 1 .. Len(slice) |-> Lower(slice[i])]

\* "[rR][0-7]" and its callback
MatchesRegister(slice) ==
    Len(slice) = 2 /\ slice[1] \in {82, 114} /\ slice[2] \in 48 .. 55

register(slice) == slice[2] - 48

\* the slice without a leading c, should it have one
Optional(c, slice) ==
    IF slice # << >> /\ Head(slice) = c THEN Tail(slice) ELSE slice

IsDigits(slice, chars) ==
    slice # << >> /\ \A i \in 1 .. Len(slice) : slice[i] \in chars

HexChars == (48 .. 57) \cup (65 .. 70) \cup (97 .. 102)

\* "(0?x-?[0-9a-fA-F]+)|(#?-?[0-9]+)"
MatchesNumber(slice) ==
    \/ /\ Optional(48, slice) # << >>
       /\ Head(Optional(48, slice)) = 120
       /\ IsDigits(Optional(45, Tail(Optional(48, slice))), HexChars)
    \/ IsDigits(Optional(45, Optional(35, slice)), 48 .. 57)

DigitValue(c) == IF c <= 57 THEN c - 48 ELSE IF c <= 70 THEN c - 55 ELSE c - 87

\* i64::from_str_radix and str::parse::<i64>, for the texts the rule matches
from_str_radix(text, radix) ==
    LET digits == Optional(45, text)
        value[i \in 0 .. Len(digits)] ==
            IF i = 0 THEN 0 ELSE value[i - 1] * radix + DigitValue(digits[i])
    IN  IF digits = text THEN value[Len(digits)] ELSE 0 - value[Len(digits)]

\* the callback num: the digits right of the first x in base 16, or the
\* text without its leading #s in base 10
num(slice) ==
    IF \E i \in 1 .. Len(slice) : slice[i] = 120
    THEN LET x == CHOOSE i \in 1 .. Len(slice) :
                     slice[i] = 120 /\ \A j \in 1 .. i - 1 : slice[j] # 120
         IN  from_str_radix(SubSeq(slice, x + 1, Len(slice)), 16)
    ELSE from_str_radix(Optional(35, slice), 10)

\* "[a-zA-Z_][a-zA-Z_0-9]*"
MatchesLabel(slice) ==
    LET Letters == (65 .. 90) \cup (97 .. 122) \cup {95}
    IN  /\ slice # << >>
        /\ Head(slice) \in Letters
        /\ \A i \in 2 .. Len(slice) : slice[i] \in Letters \cup (48 .. 57)

\* a word that one rule matches whole: the rule of the highest priority
lexWord(slice) ==
    IF MatchesBr(slice) THEN Token_Br(brnzp(slice))
    ELSE IF \E k \in Keywords : k[1] = LowerCase(slice)
    THEN Token((CHOOSE k \in Keywords : k[1] = LowerCase(slice))[2])
    ELSE IF MatchesRegister(slice) THEN Token_Register(register(slice))
    ELSE IF MatchesNumber(slice) THEN Token_Number(num(slice))
    ELSE IF MatchesLabel(slice) THEN [Token("Label") EXCEPT !.b = slice]
    ELSE Token("Error")

lex(lexeme) == IF lexeme.t # "Word" THEN lexeme ELSE lexWord(lexeme.b)

\* Scanner: the token looked at and the tokens the lexer has yet to give
peek(p) == IF p.scanner = << >> THEN None ELSE lex(Head(p.scanner))

next(p) == IF p.scanner = << >> THEN p ELSE [p EXCEPT !.scanner = Tail(@)]

Parser_new(tokens) ==
    [scanner |-> tokens, location_cursor |-> 0, labels |-> [l \in {} |-> 0]]

parse_separator(p) ==
    IF peek(p).t = "Separator" THEN OkSome(TRUE, next(p)) ELSE OkNone(p)

\* MIN_16 ..= MAX_16 is i16::MIN ..= u16::MAX; n as u16
parse_number(p) ==
    LET tok == peek(p)
    IN  IF tok.t = "Number"
        THEN IF tok.n >= -32768 /\ tok.n <= 65535
             THEN OkSome(tok.n % WordSize, next(p))
             ELSE Err(p)
        ELSE OkNone(p)

\* the byte an escaped character stands for
Escaped(char) ==
    CASE char = 97 -> 7
      [] char = 98 -> 8
      [] char = 102 -> 12
      [] char = 110 -> 10
      [] char = 114 -> 13
      [] char = 116 -> 9
      [] char = 118 -> 11
      [] OTHER -> char

RECURSIVE Unescape(_, _, _)
Unescape(bytes, prev_was_escaped, chars) ==
    IF bytes = << >> THEN chars
    ELSE LET char == Head(bytes)
         IN  IF char = 92 /\ ~prev_was_escaped
             THEN Unescape(Tail(bytes), TRUE, chars)
             ELSE IF prev_was_escaped
                  THEN Unescape(Tail(bytes), FALSE, Append(chars, Escaped(char)))
                  ELSE Unescape(Tail(bytes), FALSE, Append(chars, char))

parse_string(p) ==
    LET tok == peek(p)
        chars == Append(Unescape(SubSeq(tok.b, 2, Len(tok.b) - 1), FALSE, << >>), 0)
    IN  IF tok.t = "String"
        THEN IF Len(chars) >= 65535 THEN Err(p) ELSE OkSome(chars, next(p))
        ELSE OkNone(p)

parse_label(p) ==
    IF peek(p).t = "Label" THEN OkSome(peek(p).s, next(p)) ELSE OkNone(p)

parse_register(p) ==
    IF peek(p).t = "Register" THEN OkSome(peek(p).n, next(p)) ELSE OkNone(p)

\* Location::Literal(n) or Location::Label(label), from what parse_number
\* and, after it, parse_label gave
LocationOf(p, number, label) ==
    IF number.err THEN Err(p)
    ELSE IF number.some
         THEN OkSome([Token("Literal") EXCEPT !.n = number.v], number.p)
         ELSE IF label.some
              THEN OkSome([Token("Label") EXCEPT !.s = label.v], label.p)
              ELSE OkNone(p)

parse_location(p) == LocationOf(p, parse_number(p), parse_label(p))

\* sr2 of ADD and AND: RegOrImm::Register, or RegOrImm::Immediate of a
\* number that has to be there
RegOrImmOf(p, reg, number) ==
    IF reg.some
    THEN OkSome([Token("Register") EXCEPT !.n = reg.v], reg.p)
    ELSE IF number.err \/ ~number.some THEN Err(p)
         ELSE OkSome([Token("Immediate") EXCEPT !.n = number.v], number.p)

parse_reg_or_imm(p) == RegOrImmOf(p, parse_register(p), parse_number(p))

\* an operand that has to be there ("ok_or_else ... ?"), as a field of
\* the instruction
Required(p, kind, r) ==
    IF r.err \/ ~r.some THEN Err(p)
    ELSE CASE kind = "reg" -> OkSome([Token("Register") EXCEPT !.n = r.v], r.p)
           [] kind = "num" -> OkSome([Token("Number") EXCEPT !.n = r.v], r.p)
           [] kind = "str" -> OkSome([Token("String") EXCEPT !.b = r.v], r.p)
           [] OTHER -> r

\* one operand of an instruction, as its arm of parse_instruction asks
\* for it
parse_operand(p, kind) ==
    Required(p, kind,
             CASE kind = "reg" -> parse_register(p)
               [] kind = "num" -> parse_number(p)
               [] kind = "str" -> parse_string(p)
               [] kind = "loc" -> parse_location(p)
               [] kind = "regimm" -> parse_reg_or_imm(p))

\* the operands so far (st) and the next one (r)
WithOperand(st, r) ==
    IF r.err THEN [st EXCEPT !.err = TRUE]
    ELSE [st EXCEPT !.p = r.p, !.args = Append(@, r.v)]

\* a separator may stand between two operands
NextOperand(st, kind) ==
    IF st.err THEN st
    ELSE IF kind = "sep"
         THEN [st EXCEPT !.p = parse_separator(st.p).p]
         ELSE WithOperand(st, parse_operand(st.p, kind))

\* the operands of an arm, parsed one after the other from p on; args
\* are the fields already there; the first operand that fails ends it
ParseOperands(p, kinds, args) ==
    LET after[i \in 0 .. Len(kinds)] ==
            IF i = 0 THEN [err |-> FALSE, args |-> args, p |-> p]
            ELSE NextOperand(after[i - 1], kinds[i])
    IN  after[Len(kinds)]

\* the operands of each arm of parse_instruction, in the order parsed
Operands(t) ==
    CASE t \in {"Add", "And"} -> <<"reg", "sep", "reg", "sep", "regimm">>
      [] t \in {"Br", "Jsr", "Fill"} -> <<"loc">>
      [] t \in {"Jmp", "Jsrr"} -> <<"reg">>
      [] t \in {"Ld", "Ldi", "Lea", "St", "Sti"} -> <<"reg", "sep", "loc">>
      [] t \in {"Ldr", "Str"} -> <<"reg", "sep", "reg", "sep", "num">>
      [] t = "Not" -> <<"reg", "sep", "reg">>
      [] t \in {"Trap", "Orig", "Blkw"} -> <<"num">>
      [] t = "Stringz" -> <<"str">>
      [] OTHER -> << >>

Operations ==
    {"Add", "And", "Br", "Jmp", "Jsr", "Jsrr", "Ld", "Ldi", "Ldr", "Lea",
     "Not", "Ret", "Rti", "St", "Sti", "Str", "Trap"}

PseudoOps == {"Orig", "Fill", "Blkw", "Stringz", "End"}

Traps == {"Getc", "Halt", "In", "Out", "Puts", "Putsp"}

\* an Instruction: its variant, its arm and the fields of the arm in the
\* order they were parsed (a Br starts with the nzp of its token)
InstructionOf(p, token, r) ==
    IF r.err THEN Err(p)
    ELSE OkSome([kind |-> IF token.t \in Operations THEN "Operation"
                          ELSE IF token.t \in PseudoOps THEN "PseudoOp"
                          ELSE "Trap",
                 op |-> token.t, args |-> r.args], r.p)

InstructionAt(p, token) ==
    IF token.t \notin Operations \cup PseudoOps \cup Traps THEN OkNone(p)
    ELSE InstructionOf(p, token,
                       ParseOperands(next(p), Operands(token.t),
                                     IF token.t = "Br"
                                     THEN <<[Token("Nzp") EXCEPT !.n = token.n]>>
                                     ELSE << >>))

parse_instruction(p) == InstructionAt(p, peek(p))

\* a CodeLine; label is << >> for None
CodeLineOf(p, label, instruction) ==
    IF instruction.err \/ ~instruction.some THEN Err(p)
    ELSE OkSome([label |-> IF label.some THEN <<label.v>> ELSE << >>,
                 instruction |-> instruction.v,
                 location |-> instruction.p.location_cursor],
                instruction.p)

CodeLineAfter(p, label) == CodeLineOf(p, label, parse_instruction(label.p))

parse_code_line(p) == CodeLineAfter(p, parse_label(p))

\* variant: a string is counted without its closing NUL
location_increment_NoNul(instruction) ==
    CASE instruction.op = "Blkw" -> instruction.args[1].n
      [] instruction.op = "Stringz" -> Len(instruction.args[1].b) - 1
      [] OTHER -> 1

\* the words a line takes (parse_program, "location_increment")
location_increment(instruction) ==
    CASE instruction.op = "Blkw" -> instruction.args[1].n
      [] instruction.op = "Stringz" -> Len(instruction.args[1].b)
      [] OTHER -> 1

\* variant: the label is given the cursor as it is after the line
labels_insert_AfterLine(p, line) ==
    IF line.label = << >> THEN p.labels
    ELSE [l \in (DOMAIN p.labels) \cup {line.label[1]} |->
             IF l = line.label[1] THEN p.location_cursor ELSE p.labels[l]]

\* self.labels.insert(label, line.location), when the line has a label
labels_insert(p, line) ==
    IF line.label = << >> THEN p.labels
    ELSE [l \in (DOMAIN p.labels) \cup {line.label[1]} |->
             IF l = line.label[1] THEN line.location ELSE p.labels[l]]

\* parse_program up to its loop: the first instruction (r) has to be .ORIG
AfterOrig(a, r) ==
    IF ~r.err /\ r.some /\ r.v.op = "Orig"
    THEN [a EXCEPT !.at = "lines",
                   !.origin = r.v.args[1].n,
                   !.parser = [r.p EXCEPT !.location_cursor = r.v.args[1].n]]
    ELSE [a EXCEPT !.at = "parse_err"]

ParseOrig ==
    /\ phase = "asm" /\ asm.at = "start"
    /\ asm' = AfterOrig(asm, parse_instruction(asm.parser))
    /\ UNCHANGED <<cpu, phase, steps, loaded, third_edition, overflow_checks, io, call>>

\* variant: only a cursor past 16 bits is refused
Advance_NoDeviceCheck(a, p, line, cursor) ==
    IF cursor > 65535
    THEN [a EXCEPT !.at = "parse_err"]
    ELSE [a EXCEPT !.parser = [p EXCEPT !.location_cursor = cursor,
                                        !.labels = IF line.label = << >> THEN p.labels
                                                   ELSE [l \in (DOMAIN p.labels) \cup {line.label[1]} |->
                                                           IF l = line.label[1] THEN line.location
                                                           ELSE p.labels[l]]],
                   !.lines = Append(@, line)]

\* a line that is not .END: the cursor is moved past it, then its label is
\* entered and the line kept
Advance(a, p, line, cursor) ==
    IF cursor > 65535 \/ cursor >= \hFE00
    THEN [a EXCEPT !.at = "parse_err"]
    ELSE [a EXCEPT !.parser = [p EXCEPT !.location_cursor = cursor,
                                        !.labels = labels_insert(
                                            [p EXCEPT !.location_cursor = cursor], line)],
                   !.lines = Append(@, line)]

\* one turn of the loop of parse_program, r being what parse_code_line
\* gave; at .END the Program is returned
AfterLine(a, r) ==
    IF r.err THEN [a EXCEPT !.at = "parse_err"]
    ELSE IF r.v.instruction.op = "End"
         THEN [a EXCEPT !.at = "parsed", !.parser = r.p]
         ELSE Advance(a, r.p, r.v,
                      r.p.location_cursor + location_increment(r.v.instruction))

ParseLine ==
    /\ phase = "asm" /\ asm.at = "lines"
    /\ asm' = AfterLine(asm, parse_code_line(asm.parser))
    /\ UNCHANGED <<cpu, phase, steps, loaded, third_edition, overflow_checks, io, call>>

----------------------------------------------------------------------------
(* The assembler (src/src/assembler.rs)                                    *)

\* Result<u16>
Ok(v) == [err |-> FALSE, v |-> v]

Fail == [err |-> TRUE, v |-> 0]

\* hi | t?, for a field t that may have failed
OrField(hi, t) == IF t.err THEN Fail ELSE Ok(BitOr(hi, t.v))

Shl(a, n) == (a * Pow2(n)) % WordSize

truncate(BIT_WIDTH, n) ==
    LET extended == sign_extend(BIT_WIDTH, n)
    IN  IF extended # n THEN Fail ELSE Ok(n % Pow2(BIT_WIDTH))

resolve_label(pgm, label) ==
    IF label \in DOMAIN pgm.labels THEN Ok(pgm.labels[label]) ELSE Fail

resolve_location_absolute(pgm, loc) ==
    IF loc.t = "Label" THEN resolve_label(pgm, loc.s) ELSE Ok(loc.n)

\* variant: the offset is counted from the line itself
resolve_location_relative_FromLine(pgm, loc, line_loc) ==
    IF loc.t = "Label"
    THEN IF loc.s \in DOMAIN pgm.labels
         THEN [err |-> FALSE, v |-> (pgm.labels[loc.s] - line_loc) % WordSize]
         ELSE [err |-> TRUE, v |-> 0]
    ELSE [err |-> FALSE, v |-> loc.n]

\* u16::wrapping_sub(label, line_loc).wrapping_sub(1)
RelativeTo(label, line_loc) ==
    IF label.err THEN Fail ELSE Ok((label.v - line_loc - 1) % WordSize)

resolve_location_relative(pgm, loc, line_loc) ==
    IF loc.t = "Label"
    THEN RelativeTo(resolve_label(pgm, loc.s), line_loc)
    ELSE Ok(loc.n)

\* the vector of a named trap
TrapVector(trap) ==
    CASE trap = "Getc" -> 32
      [] trap = "Out" -> 33
      [] trap = "Puts" -> 34
      [] trap = "In" -> 35
      [] trap = "Putsp" -> 36
      [] trap = "Halt" -> 37

\* the opcode of an operation that has one of its own
OpcodeOf(op) ==
    CASE op = "Add" -> Add
      [] op = "And" -> And
      [] op = "Ld" -> Ld
      [] op = "Ldi" -> Ldi
      [] op = "Lea" -> Lea
      [] op = "St" -> St
      [] op = "Sti" -> Sti
      [] op = "Ldr" -> Ldr
      [] op = "Str" -> Str

\* a PC-relative field of BIT_WIDTH bits: truncate(resolve_location_relative(..)?)?
RelativeField(BIT_WIDTH, r) == IF r.err THEN Fail ELSE truncate(BIT_WIDTH, r.v)

\* variant: JSRR puts its base register in bits 11..9
EncodeFields_BaseRInDr(pgm, line, op, a) ==
    CASE op \in {"Add", "And"} ->
           IF a[3].t = "Register"
           THEN Ok(BitOr(BitOr(BitOr(Shl(OpcodeOf(op), 12), Shl(a[1].n, 9)),
                               Shl(a[2].n, 6)),
                         a[3].n))
           ELSE OrField(BitOr(BitOr(BitOr(Shl(OpcodeOf(op), 12), Shl(a[1].n, 9)),
                                    Shl(a[2].n, 6)),
                              32),
                        truncate(5, a[3].n))
      [] op = "Br" ->
           OrField(BitOr(Shl(Br, 12), Shl(IF a[1].n = 0 THEN 7 ELSE a[1].n, 9)),
                   RelativeField(9, resolve_location_relative(pgm, a[2], line.location)))
      [] op = "Jmp" -> Ok(BitOr(Shl(Jmp, 12), Shl(a[1].n, 6)))
      [] op = "Jsr" ->
           OrField(BitOr(Shl(Jsr, 12), 2048),
                   RelativeField(11, resolve_location_relative(pgm, a[1], line.location)))
      [] op = "Jsrr" -> Ok(BitOr(Shl(Jsr, 12), Shl(a[1].n, 9)))
      [] op \in {"Ld", "Ldi", "Lea", "St", "Sti"} ->
           OrField(BitOr(Shl(OpcodeOf(op), 12), Shl(a[1].n, 9)),
                   RelativeField(9, resolve_location_relative(pgm, a[2], line.location)))
      [] op \in {"Ldr", "Str"} ->
           OrField(BitOr(BitOr(Shl(OpcodeOf(op), 12), Shl(a[1].n, 9)),
                         Shl(a[2].n, 6)),
                   truncate(6, a[3].n))
      [] op = "Not" ->
           Ok(BitOr(BitOr(BitOr(Shl(Not, 12), Shl(a[1].n, 9)), Shl(a[2].n, 6)), 63))
      [] op = "Ret" -> Ok(BitOr(Shl(Jmp, 12), Shl(7, 6)))
      [] op = "Rti" -> Ok(Shl(Rti, 12))
      [] op = "Trap" -> OrField(Shl(Trap, 12), truncate(8, a[1].n))

\* the word of an Instruction::Operation (the inner match of assemble);
\* a are the fields of the operation
EncodeFields(pgm, line, op, a) ==
    CASE op \in {"Add", "And"} ->
           IF a[3].t = "Register"
           THEN Ok(BitOr(BitOr(BitOr(Shl(OpcodeOf(op), 12), Shl(a[1].n, 9)),
                               Shl(a[2].n, 6)),
                         a[3].n))
           ELSE OrField(BitOr(BitOr(BitOr(Shl(OpcodeOf(op), 12), Shl(a[1].n, 9)),
                                    Shl(a[2].n, 6)),
                              32),
                        truncate(5, a[3].n))
      [] op = "Br" ->
           OrField(BitOr(Shl(Br, 12), Shl(IF a[1].n = 0 THEN 7 ELSE a[1].n, 9)),
                   RelativeField(9, resolve_location_relative(pgm, a[2], line.location)))
      [] op = "Jmp" -> Ok(BitOr(Shl(Jmp, 12), Shl(a[1].n, 6)))
      [] op = "Jsr" ->
           OrField(BitOr(Shl(Jsr, 12), 2048),
                   RelativeField(11, resolve_location_relative(pgm, a[1], line.location)))
      [] op = "Jsrr" -> Ok(BitOr(Shl(Jsr, 12), Shl(a[1].n, 6)))
      [] op \in {"Ld", "Ldi", "Lea", "St", "Sti"} ->
           OrField(BitOr(Shl(OpcodeOf(op), 12), Shl(a[1].n, 9)),
                   RelativeField(9, resolve_location_relative(pgm, a[2], line.location)))
      [] op \in {"Ldr", "Str"} ->
           OrField(BitOr(BitOr(Shl(OpcodeOf(op), 12), Shl(a[1].n, 9)),
                         Shl(a[2].n, 6)),
                   truncate(6, a[3].n))
      [] op = "Not" ->
           Ok(BitOr(BitOr(BitOr(Shl(Not, 12), Shl(a[1].n, 9)), Shl(a[2].n, 6)), 63))
      [] op = "Ret" -> Ok(BitOr(Shl(Jmp, 12), Shl(7, 6)))
      [] op = "Rti" -> Ok(Shl(Rti, 12))
      [] op = "Trap" -> OrField(Shl(Trap, 12), truncate(8, a[1].n))

EncodeOperation(pgm, line) ==
    EncodeFields(pgm, line, line.instruction.op, line.instruction.args)

\* Ok(word) pushes the word, Err returns
Pushed(r) ==
    [err |-> r.err, stop |-> FALSE, words |-> IF r.err THEN << >> ELSE <<r.v>>]

\* variant: a .ORIG among the lines is passed over
EncodeInstruction_OrigPassed(pgm, line, op, a) ==
    CASE op = "Fill" -> Pushed(resolve_location_absolute(pgm, a[1]))
      [] op = "Blkw" ->
           [err |-> FALSE, stop |-> FALSE, words |-> [i \in 1 .. a[1].n |-> 0]]
      [] op = "Stringz" ->
           [err |-> FALSE, stop |-> FALSE, words |-> a[1].b]
      [] op = "End" -> [err |-> FALSE, stop |-> TRUE, words |-> << >>]
      [] op = "Orig" -> [err |-> FALSE, stop |-> FALSE, words |-> <<a[1].n>>]
      [] op \in Operations -> Pushed(EncodeOperation(pgm, line))
      [] op \in Traps -> Pushed(Ok(BitOr(Shl(Trap, 12), TrapVector(op))))

\* what one turn of the loop of assemble does with a line: the words it
\* pushes, or the error it returns with, or the break at .END
EncodeInstruction(pgm, line, op, a) ==
    CASE op = "Fill" -> Pushed(resolve_location_absolute(pgm, a[1]))
      [] op = "Blkw" ->
           [err |-> FALSE, stop |-> FALSE, words |-> [i \in 1 .. a[1].n |-> 0]]
      [] op = "Stringz" ->
           [err |-> FALSE, stop |-> FALSE, words |-> a[1].b]
      [] op = "End" -> [err |-> FALSE, stop |-> TRUE, words |-> << >>]
      [] op = "Orig" -> [err |-> TRUE, stop |-> FALSE, words |-> << >>]
      [] op \in Operations -> Pushed(EncodeOperation(pgm, line))
      [] op \in Traps -> Pushed(Ok(BitOr(Shl(Trap, 12), TrapVector(op))))

EncodeLine(pgm, line) ==
    EncodeInstruction(pgm, line, line.instruction.op, line.instruction.args)

\* the Program that parse returned
ProgramOf(a) == [origin |-> a.origin, lines |-> a.lines, labels |-> a.parser.labels]

\* assemble up to its loop: the origin is the first word
AssembleStart ==
    /\ phase = "asm" /\ asm.at = "parsed"
    /\ asm' = [asm EXCEPT !.machine_code = <<asm.origin>>,
                          !.line = 1,
                          !.at = IF asm.lines = << >> THEN "done" ELSE "assemble"]
    /\ UNCHANGED <<cpu, phase, steps, loaded, third_edition, overflow_checks, io, call>>

\* one turn of the loop of assemble, r being what the line gave; an error
\* returns without the words, the end of the lines returns them
AfterEncode(a, r) ==
    IF r.err
    THEN [a EXCEPT !.at = "assemble_err", !.machine_code = << >>]
    ELSE [a EXCEPT !.machine_code = @ \o r.words,
                   !.line = @ + 1,
                   !.at = IF r.stop \/ a.line = Len(a.lines)
                          THEN "done" ELSE "assemble"]

AssembleLine ==
    /\ phase = "asm" /\ asm.at = "assemble"
    /\ asm' = AfterEncode(asm, EncodeLine(ProgramOf(asm), asm.lines[asm.line]))
    /\ UNCHANGED <<cpu, phase, steps, loaded, third_edition, overflow_checks, io, call>>

----------------------------------------------------------------------------
(* The disassembler (src/src/bin/disasm.rs): a word is printed as parts    *)
(* joined by blanks, each part a text given by its bytes                   *)

\* format!("R{}", r)
FormatRegister(r) == <<82, 48 + r>>

HexDigit(d) == IF d < 10 THEN 48 + d ELSE 87 + d

\* format!("{:#06x}", n) and format!("{:#04x}", n): "0x" and the hex digits
\* of the bit pattern of n, which fill the width
LowerHex(n, digits) ==
    <<48, 120>> \o [i \in 1 .. digits |-> HexDigit((n \div (16 ^ (digits - i))) % 16)]

\* i16::to_string of the bit pattern n
to_string(n) ==
    LET m == IF AsSigned(n) < 0 THEN 0 - AsSigned(n) ELSE AsSigned(n)
        count == CHOOSE c \in 1 .. 5 : m < 10 ^ c /\ (c = 1 \/ m >= 10 ^ (c - 1))
        digits == [i \in 1 .. count |-> 48 + ((m \div (10 ^ (count - i))) % 10)]
    IN  IF AsSigned(n) < 0 THEN <<45>> \o digits ELSE digits

disassemble_instruction(instruction) ==
    LET opcode == get_bits(12, 15, instruction)
        r(START, END) == FormatRegister(get_bits(START, END, instruction))
    IN  CASE opcode \in {Add, And} ->
               <<IF opcode = Add THEN <<65, 68, 68>> ELSE <<65, 78, 68>>, r(9, 11), r(6, 8),
                 IF get_bits(5, 5, instruction) = 1
                 THEN to_string(sign_extend(5, get_bits(0, 4, instruction)))
                 ELSE r(0, 2)>>
          [] opcode = Not -> <<<<78, 79, 84>>, r(9, 11), r(6, 8)>>
          [] opcode = Br ->
               <<<<66, 82>> \o (IF get_bits(11, 11, instruction) = 0 THEN << >> ELSE <<110>>)
                     \o (IF get_bits(10, 10, instruction) = 0 THEN << >> ELSE <<122>>)
                     \o (IF get_bits(9, 9, instruction) = 0 THEN << >> ELSE <<112>>),
                 LowerHex(sign_extend(9, get_bits(0, 8, instruction)), 4)>>
          [] opcode = Jmp ->
               IF get_bits(6, 8, instruction) = 7 THEN <<<<82, 69, 84>>>> ELSE <<<<74, 77, 80>>, r(6, 8)>>
          [] opcode = Jsr ->
               IF get_bits(11, 11, instruction) = 1
               THEN <<<<74, 83, 82>>, LowerHex(sign_extend(11, get_bits(0, 10, instruction)), 4)>>
               ELSE <<<<74, 83, 82, 82>>, r(6, 8)>>
          [] opcode \in {Ld, Ldi, Lea, St, Sti} ->
               <<CASE opcode = Lea -> <<76, 69, 65>> [] opcode = Ld -> <<76, 68>> [] opcode = Ldi -> <<76, 68, 73>>
                   [] opcode = St -> <<83, 84>> [] opcode = Sti -> <<83, 84, 73>>,
                 r(9, 11), LowerHex(sign_extend(9, get_bits(0, 8, instruction)), 4)>>
          [] opcode \in {Ldr, Str} ->
               <<IF opcode = Ldr THEN <<76, 68, 82>> ELSE <<83, 84, 82>>, r(9, 11), r(6, 8),
                 LowerHex(sign_extend(6, get_bits(0, 5, instruction)), 4)>>
          [] opcode = Rti -> <<<<82, 84, 73>>>>
          [] opcode = Reserved -> <<<<91, 114, 101, 115, 101, 114, 118, 101, 100, 93>>>>
          [] opcode = Trap -> <<<<84, 82, 65, 80>>, LowerHex(get_bits(0, 7, instruction), 2)>>

\* main of the disassembler on the words the assembler gave: the origin is
\* passed over and a line is printed for each word after it
Disassemble ==
    /\ phase = "asm" /\ asm.at = "done"
    /\ Len(asm.machine_code) - 1 <= MaxListing
    /\ asm' = [asm EXCEPT !.at = "listed",
                          !.listing = [i \in 1 .. Len(asm.machine_code) - 1 |->
                                         disassemble_instruction(asm.machine_code[i + 1])]]
    /\ UNCHANGED <<cpu, phase, steps, loaded, third_edition, overflow_checks, io, call>>

----------------------------------------------------------------------------
(* The sources the assembler is run on, as token streams: .ORIG, up to     *)
(* MaxLines lines of a menu, .END; and two sources that lack one of them   *)

Reg(r) == Token_Register(r)

Sep == Token("Separator")

\* "hi" between its quotes
StringHi == <<34, 104, 105, 34>>

LineMenu ==
    { <<Token("Add"), Reg(0), Sep, Reg(0), Sep, Token_Number(1)>>,
      <<Token_Label("L0"), Token("Halt")>>,
      <<Token_Label("L0"), Token("Blkw"), Token_Number(2)>>,
      <<Token_Label("L1"), Token("Stringz"), Token_String(StringHi)>>,
      <<Token("Fill"), Token_Label("L0")>>,
      <<Token_Label("L1"), Token("Fill"), Token_Label("L1")>>,
      <<Token("Fill"), Token_Label("L2")>>,
      <<Token_Br(7), Token_Label("L0")>>,
      <<Token("Blkw"), Token_Number(0)>>,
      <<Token("Orig"), Token_Number(\h4000)>> }

RECURSIVE Bodies(_)
Bodies(n) ==
    IF n = 0 THEN {<< >>}
    ELSE Bodies(n - 1) \cup {b \o l : b \in Bodies(n - 1), l \in LineMenu}

AsmOrigin == \h3000

SourceOf(origin, body) ==
    <<Token("Orig"), Token_Number(origin)>> \o body \o <<Token("End")>>

\* the operations with a PC-relative field, each aimed at the label L0
RelOps == {"Br", "Ld", "Ldi", "Lea", "St", "Sti", "Jsr"}

RelLine(op) ==
    CASE op = "Br" -> <<Token_Br(7), Token_Label("L0")>>
      [] op = "Jsr" -> <<Token("Jsr"), Token_Label("L0")>>
      [] OTHER -> <<Token(op), Reg(1), Sep, Token_Label("L0")>>

BlkwLine(n) == <<Token("Blkw"), Token_Number(n)>>

\* the words between a PC-relative operation and its label, about the
\* ends of the 9-bit and 11-bit ranges, and the gap from which a target
\* is 2^16 - 2^10 words ahead
Gaps == {0, 254, 255, 256, 1022, 1023, 1024}

WrapGap == WordSize - Pow2(10)

\* a label, a gap and the operation / the operation, a gap and the label
FarSources ==
    { SourceOf(AsmOrigin, <<Token_Label("L0")>> \o BlkwLine(n) \o RelLine(op)) :
        op \in RelOps, n \in Gaps }
    \cup { SourceOf(AsmOrigin, RelLine(op) \o BlkwLine(n)
                                \o <<Token_Label("L0"), Token("Halt")>>) :
             op \in RelOps, n \in Gaps }
    \cup { SourceOf(0, RelLine(op) \o BlkwLine(WrapGap)
                       \o <<Token_Label("L0"), Token("Halt")>>) :
             op \in {"Br", "Jsr"} }

\* ADD and AND with a literal as their third operand: the ends of the
\* accepted literals, of the 5-bit range and of the 16-bit patterns
Literals == {-32769, -32768, -17, -16, -1, 0, 1, 15, 16, 31, 32, 32767, 32768,
             65519, 65520, 65535, 65536}

ImmLine(op, n) == <<Token(op), Reg(1), Sep, Reg(2), Sep, Token_Number(n)>>

ImmSources ==
    { SourceOf(AsmOrigin, ImmLine(op, n)) : op \in {"Add", "And"}, n \in Literals }

\* TRAP with each vector of eight bits, and each named trap
TrapSources ==
    { SourceOf(AsmOrigin, <<Token("Trap"), Token_Number(v)>>) : v \in 0 .. 255 }

AliasSources == { SourceOf(AsmOrigin, <<Token(trap)>>) : trap \in Traps }

\* every way of writing the letters of a word in upper and lower case
RECURSIVE Casings(_)
Casings(word) ==
    IF word = << >> THEN {<< >>}
    ELSE {<<c>> \o rest : c \in {Head(word), Head(word) - 32},
                          rest \in Casings(Tail(word))}

\* L0 BR<suffix> L0, for every suffix and every casing of the mnemonic
BrSources ==
    { SourceOf(AsmOrigin, <<Token_Label("L0"), [Token("Word") EXCEPT !.b = slice],
                            Token_Label("L0")>>) :
        slice \in UNION {Casings(<<98, 114>> \o sfx) : sfx \in BrSuffixes} }

\* one line about the end of the memory a program may take: an origin
\* and HALT or .BLKW n (-1 is written for xFFFF)
SizeCases ==
    { <<\hFDFE, <<Token("Halt")>> >>, <<\hFDFF, <<Token("Halt")>> >>,
      <<\hFE00, <<Token("Halt")>> >>, <<\hFFFF, <<Token("Halt")>> >>,
      <<-1, <<Token("Halt")>> >>,
      <<\hFDFF, BlkwLine(0)>>, <<\hFE00, BlkwLine(0)>>,
      <<\hFD00, BlkwLine(\hFF)>>, <<\hFD00, BlkwLine(\h100)>>,
      <<\hFD00, BlkwLine(\h101)>>, <<\hFD00, BlkwLine(\hFFFF)>>,
      <<\hFD00, BlkwLine(-1)>>, <<1, BlkwLine(\hFFFF)>> }

SizeSources == { SourceOf(c[1], c[2]) : c \in SizeCases }

\* one operation of each form: every register in every register field,
\* every immediate and offset its field holds, written as a signed number
EncodeLines ==
    { <<Token(op), Reg(dr), Sep, Reg(sr1), Sep, Reg(sr2)>> :
        op \in {"Add", "And"}, dr \in 0 .. 7, sr1 \in 0 .. 7, sr2 \in 0 .. 7 }
    \cup { <<Token(op), Reg(dr), Sep, Reg(sr1), Sep, Token_Number(imm)>> :
             op \in {"Add", "And"}, dr \in 0 .. 7, sr1 \in {2, 7}, imm \in -16 .. 15 }
    \cup { <<Token("Not"), Reg(dr), Sep, Reg(sr)>> : dr \in 0 .. 7, sr \in 0 .. 7 }
    \cup { <<Token_Br(nzp), Token_Number(n)>> : nzp \in {0, 7}, n \in -256 .. 255 }
    \cup { <<Token_Br(nzp), Token_Number(n)>> : nzp \in 1 .. 6, n \in {-256, -1, 0, 255} }
    \cup { <<Token(op), Reg(base_r)>> : op \in {"Jmp", "Jsrr"}, base_r \in 0 .. 7 }
    \cup { <<Token("Jsr"), Token_Number(n)>> : n \in -1024 .. 1023 }
    \cup { <<Token(op), Reg(5), Sep, Token_Number(n)>> :
             op \in {"Ld", "Ldi", "Lea", "St", "Sti"}, n \in -256 .. 255 }
    \cup { <<Token(op), Reg(r), Sep, Token_Number(n)>> :
             op \in {"Ld", "Ldi", "Lea", "St", "Sti"}, r \in 0 .. 7, n \in {-256, -1, 0, 255} }
    \cup { <<Token(op), Reg(r), Sep, Reg(base_r), Sep, Token_Number(n)>> :
             op \in {"Ldr", "Str"}, r \in 0 .. 7, base_r \in {1, 7}, n \in -32 .. 31 }
    \cup { <<Token(op), Reg(3), Sep, Reg(base_r), Sep, Token_Number(n)>> :
             op \in {"Ldr", "Str"}, base_r \in 0 .. 7, n \in {-32, 31} }
    \cup { <<Token("Ret")>>, <<Token("Rti")>> }
    \cup { <<Token("Trap"), Token_Number(v)>> : v \in -128 .. 127 }

EncodeSources == { SourceOf(AsmOrigin, line) : line \in EncodeLines }

\* sources that do not begin with .ORIG and a number
HeadSources ==
    { << >>,
      <<Token("End")>>,
      <<Token_Label("L0"), Token("Orig"), Token_Number(AsmOrigin), Token("End")>>,
      <<Token("Orig"), Token_Label("L0"), Token("End")>>,
      <<Token("Orig"), Token("End")>>,
      <<Token("Halt"), Token("Orig"), Token_Number(AsmOrigin), Token("End")>> }

\* sources that go on after .END
TailSources ==
    { SourceOf(AsmOrigin, <<Token("Halt")>>) \o t :
        t \in { <<Token("Halt")>>,
                <<Token("Orig"), Token_Number(AsmOrigin)>>,
                <<Token("Halt"), Token("End")>>,
                <<Token("Fill")>> } }

Sources ==
    { SourceOf(AsmOrigin, b) : b \in Bodies(MaxLines) }
    \cup { <<Token("Add"), Reg(0), Sep, Reg(0), Sep, Token_Number(1), Token("End")>>,
           <<Token("Orig"), Token_Number(AsmOrigin), Token("Halt")>> }
    \cup FarSources
    \cup ImmSources
    \cup TrapSources
    \cup AliasSources
    \cup BrSources
    \cup SizeSources
    \cup HeadSources
    \cup TailSources
    \cup EncodeSources

AsmInit ==
    /\ cpu = Cpu_new(<< >>)
    /\ phase = "asm"
    /\ steps = 0
    /\ loaded = << >>
    /\ third_edition = FALSE
    /\ overflow_checks = FALSE
    /\ call = NoCall
    /\ io = NoIo
    /\ asm \in {[NoAsm EXCEPT !.at = "start", !.source = tokens,
                               !.parser = Parser_new(tokens)] :
                  tokens \in Sources}

\* the lines whose last operand is a label and whose operation reaches it
\* from the PC
LabelTargeted(lines) ==
    {i \in 1 .. Len(lines) :
        /\ lines[i].instruction.op \in {"Br", "Jsr", "Ld", "Ldi", "Lea", "St", "Sti"}
        /\ lines[i].instruction.args[Len(lines[i].instruction.args)].t = "Label"}

\* a Cpu that has loaded the object file, its registers holding v, the
\* condition codes cc and the PC at loc
CpuAt(code, loc, cc, v) ==
    [Cpu_set(load_program(Cpu_new(<< >>), WordsToBytes(code)), PSR, cc)
        EXCEPT !.pc = loc, !.registers = [r \in 0 .. 7 |-> v]]

\* the emulator run on the assembler's output: the object file is loaded
\* and one step is taken at the location of a line that names a label
Execute ==
    /\ phase = "asm" /\ asm.at = "done"
    /\ \E i \in LabelTargeted(asm.lines), cc \in {0, COND_ZERO} :
          /\ cpu' = step(CpuAt(asm.machine_code, asm.lines[i].location, cc, \h5A5A))
          /\ asm' = [asm EXCEPT !.at = "executed", !.line = i]
    /\ UNCHANGED <<phase, steps, loaded, third_edition, overflow_checks, io, call>>

AsmNext ==
    ParseOrig \/ ParseLine \/ AssembleStart \/ AssembleLine \/ Disassemble \/ Execute

AsmSpec == AsmInit /\ [][AsmNext]_vars

----------------------------------------------------------------------------
\* the words a line is said to take: one for an operation, a trap alias or
\* a .FILL, n for .BLKW n, the characters of the string and its NUL for
\* .STRINGZ
WordsOfLine(line) ==
    CASE line.instruction.op = "Blkw" -> line.instruction.args[1].n
      [] line.instruction.op = "Stringz" ->
           (Len(line.instruction.args[1].b) - 1) + 1
      [] OTHER -> 1

\* where the lines are placed when each follows the one before it: the
\* location after the first i lines
PlacedAfter(origin, lines) ==
    LET placed[i \in 0 .. Len(lines)] ==
            IF i = 0 THEN origin ELSE placed[i - 1] + WordsOfLine(lines[i])
    IN  placed

(* C19: when a program has parsed and assembled, the output is the origin  *)
(* word followed by the words of each line in source order; the words of   *)
(* the line placed at location L start at output index L - origin + 1      *)
(* (the origin word being at index 0); the number of emitted words less    *)
(* one is the final location cursor less the origin; and the cursor has    *)
(* advanced by 1 per operation, trap alias or .FILL, by n per .BLKW n and  *)
(* by the string's length + 1 per .STRINGZ.                                *)
C19_OutputFollowsCursor ==
    asm.at = "done"
    => LET code == asm.machine_code
           origin == asm.origin
           lines == asm.lines
           placed == PlacedAfter(origin, lines)
       IN  /\ code[1] = origin
           /\ \A i \in 1 .. Len(lines) :
                 /\ lines[i].location = placed[i - 1]
                 /\ SubSeq(code, lines[i].location - origin + 2,
                           lines[i].location - origin + 1 + WordsOfLine(lines[i]))
                    = EncodeLine(ProgramOf(asm), lines[i]).words
           /\ asm.parser.location_cursor = placed[Len(lines)]
           /\ Len(code) - 1 = asm.parser.location_cursor - origin

\* L0 .BLKW 2 / L1 .STRINGZ "hi" / ADD R0, R0, #1 has been assembled
C19_Witness ==
    /\ asm.at = "done"
    /\ asm.machine_code = <<\h3000, 0, 0, 104, 105, 0, \h1021>>
    /\ asm.parser.location_cursor = \h3006
    /\ Len(asm.lines) = 3

\* the lines that bear the label l, and the last of them
Bearing(lines, l) == {i \in 1 .. Len(lines) : lines[i].label = <<l>>}

LastBearing(lines, l) ==
    CHOOSE i \in Bearing(lines, l) : \A j \in Bearing(lines, l) : j <= i

(* C20: in a program that has parsed, the labels are those the lines bear  *)
(* and each maps to the location of the line it prefixes (of the last such *)
(* line, should several bear it), not to the location after that line; and *)
(* when the program has assembled, the word of every .FILL L is that       *)
(* address, wherever the .FILL is placed.                                  *)
C20_LabelIsLocationOfItsLine ==
    asm.at \in {"parsed", "assemble", "assemble_err", "done"}
    => LET lines == asm.lines
           labels == asm.parser.labels
           IsFillLabel(i) == /\ lines[i].instruction.op = "Fill"
                             /\ lines[i].instruction.args[1].t = "Label"
       IN  /\ DOMAIN labels = {lines[i].label[1] :
                                 i \in {j \in 1 .. Len(lines) : lines[j].label # << >>}}
           /\ \A l \in DOMAIN labels :
                 labels[l] = lines[LastBearing(lines, l)].location
           /\ \A i \in 1 .. Len(lines) :
                 (lines[i].label # << >>
                  /\ Cardinality(Bearing(lines, lines[i].label[1])) = 1)
                 => labels[lines[i].label[1]] = lines[i].location
           /\ asm.at = "done"
              => \A i \in 1 .. Len(lines) :
                    IsFillLabel(i)
                    => asm.machine_code[lines[i].location - asm.origin + 2]
                       = lines[LastBearing(lines, lines[i].instruction.args[1].s)].location

\* .FILL L0 / ADD R0, R0, #1 / L0 HALT has been assembled: the .FILL, two
\* lines before the label, holds the address of the HALT
C20_Witness ==
    /\ asm.at = "done"
    /\ asm.machine_code = <<\h3000, \h3002, \h1021, \hF025>>
    /\ DOMAIN asm.parser.labels = {"L0"}
    /\ asm.parser.labels["L0"] = \h3002
    /\ asm.lines[3].label = <<"L0">> /\ asm.lines[3].location = \h3002

----------------------------------------------------------------------------
\* the lines with a PC-relative field whose target is a label, the width
\* of the field and the address of the label
IsRelative(line) ==
    /\ line.instruction.op \in RelOps
    /\ line.instruction.args[Len(line.instruction.args)].t = "Label"

FieldWidth(line) == IF line.instruction.op = "Jsr" THEN 11 ELSE 9

TargetOf(line) ==
    asm.parser.labels[line.instruction.args[Len(line.instruction.args)].s]

\* t - (loc + 1) as an integer, and as (t - (loc + 1)) mod 2^16 read as a
\* signed 16-bit value
Distance(line) == TargetOf(line) - (line.location + 1)

Distance16(line) == AsSigned((TargetOf(line) - (line.location + 1)) % WordSize)

InField(d, w) == d >= -Pow2(w - 1) /\ d <= Pow2(w - 1) - 1

WordOfLine(line) == asm.machine_code[line.location - asm.origin + 2]

RelativeLines == {i \in 1 .. Len(asm.lines) : IsRelative(asm.lines[i])}

\* a program that has assembled has every PC-relative field in range (by
\* the distance D) and holding the low bits of the distance; one that has
\* not has emitted nothing
OffsetsChecked(D(_)) ==
    /\ asm.at = "done"
       => \A i \in RelativeLines :
             LET line == asm.lines[i]
                 w == FieldWidth(line)
             IN  /\ InField(D(line), w)
                 /\ WordOfLine(line) % Pow2(w)
                    = ((TargetOf(line) - (line.location + 1)) % WordSize) % Pow2(w)
    /\ asm.at = "assemble_err" => asm.machine_code = << >>

(* C21 as stated: for a PC-relative operation at loc whose target is a     *)
(* label at t, the field is the low w bits of (t - (loc + 1)) mod 2^16,    *)
(* and assembly fails, emitting nothing, whenever the distance             *)
(* t - (loc + 1) is outside [-2^(w-1), 2^(w-1) - 1].                       *)
C21_OffsetInRangeOrFails == OffsetsChecked(Distance)

(* C21: the same, the distance being (t - (loc + 1)) mod 2^16 read as a    *)
(* signed 16-bit value: a JSR whose label is 2^16 - 2^10 or more words     *)
(* ahead assembles, with the offset that reaches the label by wrapping.    *)
C21_Offset16InRangeOrFails == OffsetsChecked(Distance16)

\* BR to a label 256 words back has assembled (offset x100), the .BLKW 255
\* before it
C21_Witness ==
    /\ asm.at = "done"
    /\ Len(asm.machine_code) = 257
    /\ Len(asm.lines) = 2
    /\ asm.lines[2].instruction.op = "Br"
    /\ asm.lines[2].location = \h30FF
    /\ asm.machine_code[257] = \h0F00
    /\ asm.parser.labels["L0"] = \h3000

----------------------------------------------------------------------------
\* the sources of one ADD or AND with a literal, and the literal written
IsImmSource == asm.source \in ImmSources

LiteralWritten == asm.source[8].n

(* C22: ADD or AND with a literal as its third operand fails to assemble   *)
(* for every accepted literal (-32768 .. 65535) outside [-16, 15], and for *)
(* every literal in [-16, 15] succeeds with the literal's 5-bit two's      *)
(* complement in bits 4..0 and bit 5 set.                                  *)
C22_ImmediateRange ==
    IsImmSource
    => /\ asm.at = "done" => LiteralWritten \in -16 .. 15
       /\ (LiteralWritten \in -16 .. 15)
          => /\ asm.at \notin {"parse_err", "assemble_err"}
             /\ asm.at = "done"
                => /\ asm.machine_code[2] % 32 = LiteralWritten % 32
                   /\ (asm.machine_code[2] \div 32) % 2 = 1

----------------------------------------------------------------------------
\* the vector each named trap stands for
VectorTable ==
    [Getc |-> \h20, Out |-> \h21, Puts |-> \h22, In |-> \h23, Putsp |-> \h24,
     Halt |-> \h25]

(* C23: TRAP v assembles, for every vector v in 0 .. 255, to the word      *)
(* xF000 | v, and each named trap assembles to the word of TRAP with its   *)
(* vector of the table.                                                    *)
C23_TrapVectors ==
    /\ asm.source \in TrapSources
       => /\ asm.at \notin {"parse_err", "assemble_err"}
          /\ asm.at = "done" => asm.machine_code = <<AsmOrigin, \hF000 + asm.source[4].n>>
    /\ asm.source \in AliasSources
       => /\ asm.at \notin {"parse_err", "assemble_err"}
          /\ asm.at = "done"
             => asm.machine_code = <<AsmOrigin, \hF000 + VectorTable[asm.source[3].t]>>

----------------------------------------------------------------------------
\* the condition bits a BR mnemonic names, whatever the case of its letters
NamedBits(slice) ==
    LET names(c) == \E i \in 3 .. Len(slice) : Lower(slice[i]) = c
    IN  (IF names(110) THEN 4 ELSE 0) + (IF names(122) THEN 2 ELSE 0)
        + (IF names(112) THEN 1 ELSE 0)

(* C24: BR with any subset of n, z, p as its suffix, its letters in any    *)
(* mix of upper and lower case, assembles with exactly the named condition *)
(* bits in bits 11..9, and BR with no suffix with all three.               *)
C24_BrSuffixAnyCase ==
    asm.source \in BrSources
    => /\ asm.at \notin {"parse_err", "assemble_err"}
       /\ asm.at = "done"
          => (asm.machine_code[2] \div 512) % 8
             = IF NamedBits(asm.source[4].b) = 0 THEN 7 ELSE NamedBits(asm.source[4].b)

----------------------------------------------------------------------------
\* for a source of one line, HALT or .BLKW n: where the cursor would be
\* after the line, as an integer
CursorAfterLine ==
    (asm.source[2].n % WordSize)
    + (IF asm.source[3].t = "Blkw" THEN asm.source[4].n % WordSize ELSE 1)

(* C25: the parser rejects a program for its size exactly when, after the  *)
(* advance for some line, the cursor exceeds xFE00 or overflows 16 bits; a *)
(* program whose last word is at xFDFF (the cursor being xFE00 after the   *)
(* last line) is accepted.                                                 *)
C25_RejectedWhenCursorExceeds ==
    asm.source \in SizeSources
    => /\ asm.at = "parse_err" => CursorAfterLine > \hFE00
       /\ CursorAfterLine > \hFE00 => (asm.lines = << >> /\ asm.at # "parsed")

----------------------------------------------------------------------------
\* the lines the parser has kept so far, or returned
LinesKept == asm.at \in {"lines", "parsed", "assemble", "assemble_err", "done"}

(* C26: in a program that parses, the locations of the lines do not        *)
(* decrease in source order, every line's location and every word it takes *)
(* lies in [origin, xFDFF], and the cursor never passes xFFFF; so no word  *)
(* of the output is placed among the device registers.                     *)
C26_LinesBelowDeviceSpace ==
    LinesKept
    => /\ \A i \in 1 .. Len(asm.lines) :
             /\ i > 1 => asm.lines[i - 1].location <= asm.lines[i].location
             /\ asm.origin <= asm.lines[i].location
             /\ asm.lines[i].location <= \hFDFF
             /\ asm.lines[i].location + WordsOfLine(asm.lines[i]) - 1 <= \hFDFF
       /\ asm.parser.location_cursor \in 0 .. 65535
       /\ asm.at = "done"
          => \A k \in 2 .. Len(asm.machine_code) :
                asm.origin + (k - 2) \in asm.origin .. \hFDFF

\* .ORIG xFD00 / .BLKW xFF / .END has assembled: its last word is at xFDFE
C26_Witness ==
    /\ asm.at = "done"
    /\ asm.origin = \hFD00
    /\ Len(asm.machine_code) = 256
    /\ asm.lines[1].location = \hFD00
    /\ asm.parser.location_cursor = \hFDFF

----------------------------------------------------------------------------
\* the tokens the parser has taken from the source
TokensTaken == Len(asm.source) - Len(asm.parser.scanner)

\* the number of words the lines take together
WordsOfLines(lines) == PlacedAfter(0, lines)[Len(lines)]

(* C27: parsing fails unless the source begins with .ORIG and a number;    *)
(* parsing ends at the first .END, which is not kept as a line and gives   *)
(* no output word; and a .ORIG line after the first makes assembly fail    *)
(* with nothing emitted.                                                   *)
C27_OrigFirstEndLast ==
    /\ LinesKept
       => /\ Len(asm.source) >= 2
          /\ asm.source[1].t = "Orig"
          /\ asm.source[2].t = "Number"
          /\ asm.origin = asm.source[2].n % WordSize
          /\ \A i \in 1 .. Len(asm.lines) : asm.lines[i].instruction.op # "End"
    /\ asm.at \in {"parsed", "assemble", "assemble_err", "done"}
       => /\ asm.source[TokensTaken].t = "End"
          /\ \A k \in 1 .. TokensTaken - 1 : asm.source[k].t # "End"
    /\ asm.at = "done"
       => /\ \A i \in 1 .. Len(asm.lines) : asm.lines[i].instruction.op # "Orig"
          /\ Len(asm.machine_code) = 1 + WordsOfLines(asm.lines)
    /\ asm.at = "assemble_err" => asm.machine_code = << >>

\* .ORIG x3000 / L0 HALT / .ORIG x4000 / .END has parsed into two lines and
\* assembly has failed at the second
C27_Witness ==
    /\ asm.at = "assemble_err"
    /\ Len(asm.lines) = 2
    /\ asm.lines[1].instruction.op = "Halt"
    /\ asm.lines[2].instruction.op = "Orig"
    /\ asm.line = 2
    /\ asm.source[TokensTaken].t = "End"

----------------------------------------------------------------------------
\* the tokens the lexer gives for a printed line: one for each part
Lexemes(parts) == [i \in 1 .. Len(parts) |-> [Token("Word") EXCEPT !.b = parts[i]]]

\* the words the assembler gives for the line parsed from a printed line
ReassembledFrom(r) ==
    IF r.err THEN [err |-> TRUE, stop |-> FALSE, words |-> << >>]
    ELSE EncodeLine([origin |-> 0, lines |-> <<r.v>>, labels |-> [l \in {} |-> 0]], r.v)

Reassembled(parts) == ReassembledFrom(parse_code_line(Parser_new(Lexemes(parts))))

\* the lines that are operations, and the index of the word of line i
\* after the origin word
OperationLines == {i \in 1 .. Len(asm.lines) : asm.lines[i].instruction.op \in Operations}

WordIndex(i) == asm.lines[i].location - asm.origin + 1

(* C28: for every operation the assembler has encoded, the line the        *)
(* disassembler prints for the emitted word assembles to the same word;    *)
(* JMP R7 is printed as RET, the word with bit 11 set as JSR and the one   *)
(* with bit 11 clear as JSRR.                                              *)
C28_RoundTrip ==
    asm.at = "listed"
    => \A i \in OperationLines :
          LET word == asm.machine_code[WordIndex(i) + 1]
              parts == asm.listing[WordIndex(i)]
          IN  /\ Reassembled(parts) = [err |-> FALSE, stop |-> FALSE, words |-> <<word>>]
              /\ asm.lines[i].instruction.op \in {"Jmp", "Ret"}
                 => (parts = <<<<82, 69, 84>>>>) = (get_bits(6, 8, word) = 7)
              /\ asm.lines[i].instruction.op \in {"Jsr", "Jsrr"}
                 => (parts[1] = <<74, 83, 82>>) = (get_bits(11, 11, word) = 1)

----------------------------------------------------------------------------
\* the opcode nibbles of the encoding table
Nibble(op) ==
    CASE op = "Add" -> \b0001 [] op = "And" -> \b0101 [] op = "Br" -> \b0000
      [] op \in {"Jmp", "Ret"} -> \b1100 [] op \in {"Jsr", "Jsrr"} -> \b0100
      [] op = "Ld" -> \b0010 [] op = "Ldi" -> \b1010 [] op = "Ldr" -> \b0110
      [] op = "Lea" -> \b1110 [] op = "Not" -> \b1001 [] op = "Rti" -> \b1000
      [] op = "St" -> \b0011 [] op = "Sti" -> \b1011 [] op = "Str" -> \b0111
      [] op = "Trap" -> \b1111

\* the low w bits of the last operand of the line: of the number written,
\* or of the distance from the next location to the label
LowField(line, w) ==
    LET a == line.instruction.args[Len(line.instruction.args)]
    IN  IF a.t = "Label"
        THEN ((asm.parser.labels[a.s] - (line.location + 1)) % WordSize) % Pow2(w)
        ELSE (a.n % WordSize) % Pow2(w)

\* a word by its fields: bits 15..12, 11..9, 8..6 and 5..0
Fields(nibble, hi, mid, low) == nibble * 4096 + hi * 512 + mid * 64 + low

\* the word the encoding table gives for a line that is an operation
TableWord(line) ==
    LET op == line.instruction.op
        a == line.instruction.args
    IN  CASE op \in {"Add", "And"} ->
               Fields(Nibble(op), a[1].n, a[2].n,
                      IF a[3].t = "Register" THEN a[3].n ELSE 32 + LowField(line, 5))
          [] op = "Not" -> Fields(Nibble(op), a[1].n, a[2].n, \b111111)
          [] op = "Br" ->
               Fields(Nibble(op), IF a[1].n = 0 THEN \b111 ELSE a[1].n, 0, 0)
               + LowField(line, 9)
          [] op \in {"Jmp", "Jsrr"} -> Fields(Nibble(op), 0, a[1].n, 0)
          [] op = "Ret" -> \hC1C0
          [] op = "Jsr" -> Fields(Nibble(op), \b100, 0, 0) + LowField(line, 11)
          [] op \in {"Ld", "Ldi", "Lea", "St", "Sti"} ->
               Fields(Nibble(op), a[1].n, 0, 0) + LowField(line, 9)
          [] op \in {"Ldr", "Str"} ->
               Fields(Nibble(op), a[1].n, a[2].n, LowField(line, 6))
          [] op = "Rti" -> \h8000
          [] op = "Trap" -> Fields(Nibble(op), 0, 0, 0) + LowField(line, 8)

(* C29: the word emitted for every operation of a program that has         *)
(* assembled is the one the encoding table gives: the opcode in bits       *)
(* 15..12, DR or SR in 11..9, SR1 or BaseR in 8..6, bit 5 set for an       *)
(* immediate ADD or AND, the low six bits of NOT all ones, bit 11 set for  *)
(* JSR and clear for JSRR, RET xC1C0 and RTI x8000.                        *)
C29_EncodingTable ==
    asm.at = "done"
    => \A i \in OperationLines :
          /\ WordOfLine(asm.lines[i]) = TableWord(asm.lines[i])
          /\ get_bits(12, 15, WordOfLine(asm.lines[i])) = Nibble(asm.lines[i].instruction.op)

\* L0 HALT / BRnzp L0 has assembled: the branch two words back is x0FFE
C29_Witness ==
    /\ asm.at = "done"
    /\ asm.machine_code = <<\h3000, \hF025, \h0FFE>>
    /\ asm.lines[2].instruction.op = "Br"
    /\ asm.lines[2].instruction.args[2].t = "Label"

----------------------------------------------------------------------------
\* the step enters supervisor mode with fewer than two words below the
\* stack pointer it pushes at
EntersAtBottom == cpu'.obs.entry # << >> /\ EntryTop(cpu'.obs.entry[1]) \in {0, 1}

\* the step is an RTI in supervisor mode with fewer than two words at and
\* above R6
PopsAtTop == ~UserMode(cpu) /\ FetchedOp(cpu) = Rti /\ cpu.registers[6] \in {\hFFFE, \hFFFF}

(* C30: every step completes; an exception entry whose supervisor stack    *)
(* pointer is x0000 or x0001 leaves R6 two below it modulo 2^16, and an    *)
(* RTI with R6 = xFFFE or xFFFF leaves the supervisor stack pointer two    *)
(* above it modulo 2^16.                                                   *)
C30_StackPointerWraps ==
    [][ StepTaken
        => /\ EntersAtBottom
              => /\ ~cpu'.aborted
                 /\ cpu'.registers[6]
                    = (EntryTop(cpu'.obs.entry[1]) + WordSize - 2) % WordSize
           /\ PopsAtTop
              => /\ ~cpu'.aborted
                 /\ (IF UserMode(cpu') THEN cpu'.saved_ssp ELSE cpu'.registers[6])
                    = (cpu.registers[6] + 2) % WordSize ]_vars

----------------------------------------------------------------------------
\* the step fetches a BR whose nzp field is 111
FetchesBrAlways(c) == FetchedOp(c) = Br /\ get_bits(9, 11, Fetched(c)) = \b111

(* C31: a step that fetches, at address a, a BR whose nzp field is 111     *)
(* ends with PC = a + 1 + sext(offset9) modulo 2^16, whatever the          *)
(* condition codes: on a Cpu on which no instruction has yet set them and  *)
(* after an RTI has restored the PSR as well.                              *)
C31_BrAlwaysTaken ==
    [][ (StepTaken /\ FetchesBrAlways(cpu))
        => cpu'.pc = (cpu.pc + 1 + sign_extend(9, get_bits(0, 8, Fetched(cpu))))
                     % WordSize ]_vars

----------------------------------------------------------------------------
\* the word the object file holds for the address a of the program
CodeAt(a) == asm.machine_code[a - asm.origin + 2]

(* C32: when the word emitted for a label-targeted BR, JSR, LD, LDI, LEA,  *)
(* ST or STI at location loc is fetched from loc and executed, the address *)
(* it uses is the address t of the label: a BR that is taken and a JSR end *)
(* with PC = t, LEA gives t, LD loads and ST stores at t, LDI and STI go   *)
(* through the pointer at t.                                               *)
C32_AssemblerEmulatorAgree ==
    asm.at = "executed"
    => LET line == asm.lines[asm.line]
           op == line.instruction.op
           t == TargetOf(line)
           dr == line.instruction.args[1].n
       IN  /\ cpu.obs.at = line.location
           /\ cpu.obs.ir = WordOfLine(line)
           /\ ~cpu.aborted /\ cpu.obs.raised = << >>
           /\ CASE op = "Br" ->
                     cpu.pc = IF BitAnd(get_bits(9, 11, cpu.obs.ir), PsrOf(cpu) % 8) # 0
                              THEN t
                              ELSE (line.location + 1) % WordSize
                [] op = "Jsr" ->
                     cpu.pc = t /\ cpu.registers[7] = (line.location + 1) % WordSize
                [] op = "Lea" -> cpu.registers[dr] = t
                [] op = "Ld" -> cpu.registers[dr] = CodeAt(t)
                [] op = "Ldi" -> cpu.registers[dr] = Memory_get(cpu.memory, CodeAt(t))
                [] op = "St" -> Memory_get(cpu.memory, t) = \h5A5A
                [] op = "Sti" -> Memory_get(cpu.memory, CodeAt(t)) = \h5A5A

\* JSR L0 / .BLKW 1023 / L0 HALT has been assembled at x3000 and the JSR
\* executed: the PC is at the label, x3400
C32_Witness ==
    /\ asm.at = "executed"
    /\ asm.lines[asm.line].instruction.op = "Jsr"
    /\ cpu.obs.ir = \h4BFF
    /\ cpu.obs.at = \h3000
    /\ cpu.pc = \h3400
    /\ TargetOf(asm.lines[asm.line]) = \h3400


----------------------------------------------------------------------------
(* truncate called on its own, on every 16-bit word at every width the     *)
(* assembler uses (src/src/bit_twiddling.rs, src/src/assembler.rs)         *)

\* the widths of truncate::<W> in the assembler: imm5, offset6, trapvect8,
\* PCoffset9 and PCoffset11
Widths == {5, 6, 8, 9, 11}

TruncateInit ==
    /\ cpu = Cpu_new(<< >>)
    /\ phase = "truncate"
    /\ steps = 0
    /\ loaded = << >>
    /\ third_edition = FALSE
    /\ overflow_checks = FALSE
    /\ io = NoIo
    /\ asm = NoAsm
    /\ call \in {[NoCall EXCEPT !.fn = "truncate", !.args = <<W, n>>] :
                   W \in Widths, n \in 0 .. (WordSize - 1)}

Truncate ==
    /\ phase = "truncate" /\ ~call.returned
    /\ call' = [call EXCEPT !.returned = TRUE,
                            !.result = truncate(call.args[1], call.args[2])]
    /\ UNCHANGED <<cpu, phase, steps, loaded, third_edition, overflow_checks, io, asm>>

TruncateSpec == TruncateInit /\ [][Truncate]_vars

(* C33: for every W in {5, 6, 8, 9, 11} and every 16-bit n, truncate<W>(n) *)
(* fails exactly when n, read as a signed 16-bit number, lies outside      *)
(* -(2^(W-1)) .. 2^W - 1, and on success returns n with only its low W     *)
(* bits kept.                                                              *)
C33_TruncateRange ==
    (call.fn = "truncate" /\ call.returned)
    => LET W == call.args[1]
           n == call.args[2]
       IN  /\ call.result.err
              <=> (AsSigned(n) < -Pow2(W - 1) \/ AsSigned(n) > Pow2(W) - 1)
           /\ ~call.result.err => call.result.v = n % Pow2(W)

\* what the code does: it fails exactly outside -(2^(W-1)) .. 2^(W-1) - 1
TruncateSignedRange ==
    (call.fn = "truncate" /\ call.returned)
    => LET W == call.args[1]
           n == call.args[2]
       IN  /\ call.result.err
              <=> (AsSigned(n) < -Pow2(W - 1) \/ AsSigned(n) > Pow2(W - 1) - 1)
           /\ ~call.result.err => call.result.v = n % Pow2(W)


----------------------------------------------------------------------------
(* handle_interrupt called on its own, between two turns of the run loop   *)
(* (src/src/emulator.rs)                                                   *)

\* the interrupts raised, as <<interrupt_vector, priority_level>>: the
\* keyboard's, one of the lowest and one of the highest priority, and one
\* above the priorities the PSR can hold
Interrupts == {<<\h80, 4>>, <<\h81, 0>>, <<\hFF, 7>>, <<\h01, 8>>}

Interrupt ==
    /\ phase = "run"
    /\ ~cpu.aborted
    /\ \E i \in Interrupts :
          /\ cpu' = handle_interrupt(cpu, i[1], i[2])
          /\ call' = [NoCall EXCEPT !.fn = "handle_interrupt", !.args = i,
                                    !.returned = TRUE]
    /\ phase' = "interrupted"
    /\ UNCHANGED <<steps, loaded, third_edition, overflow_checks, io, asm>>

InterruptNext == LoadOs \/ LoadPgm \/ Start \/ Step \/ Interrupt

InterruptSpec == Init /\ [][InterruptNext]_vars

\* this step is a call of handle_interrupt
Interrupted == call.fn = "none" /\ call'.fn = "handle_interrupt"

\* a PSR without its priority bits
SansPriority(psr) == psr - ((psr \div 256) % 8) * 256

\* what is said of a call that is let through: exception entry, the vector
\* in the PC, the priority in the PSR
InterruptEffect(pre, post, v, pri) ==
    LET e == handle_exception(pre, v)
        top == EntryTop(pre)
    IN  /\ ~post.aborted
        /\ post = Cpu_set(e, PSR, PsrOf(post))
        /\ OrdinaryStack(top)
           => Memory_get(post.memory, (top + WordSize - 1) % WordSize) = PsrOf(pre)
        /\ post.pc = BitOr(256, v)
        /\ get_priority_level(post) = pri
        /\ SansPriority(PsrOf(post)) = SansPriority(PsrOf(e))

----------------------------------------------------------------------------
(* C35: load_program returns, Ok or Err, without stopping the emulator and *)
(* without writing outside the 65536 words of the memory, whatever the     *)
(* bytes of the file: an odd number of bytes after the origin, or more     *)
(* words than there are addresses from the origin up to 0xFFFF.            *)
C35_LoadReturns ==
    (phase \in {"os", "pgm"})
    => /\ ~cpu.aborted
       /\ DOMAIN cpu.memory.memory \subseteq 0 .. (MEMORY_SIZE - 1)

\* what the code does with the two files: the whole words before the bad
\* chunk are written, then the emulator stops
RaggedLoad ==
    \A file \in RaggedFiles :
        LET post == load_program(Cpu_new(<< >>), file)
            o == file[1] * 256 + file[2]
        IN  /\ post.aborted
            /\ ArrayGet(post.memory.memory, o) = file[3] * 256 + file[4]
            /\ DOMAIN post.memory.memory \subseteq 0 .. (MEMORY_SIZE - 1)

=============================================================================
